---- MODULE Spec2Model ----
(***************************************************************************)
(* Model of brother_printer_fwupd: the SNMP identity walk                  *)
(* (snmp_info.get_snmp_info), the update negotiation                       *)
(* (firmware_downloader.get_download_url / parse_response), the download   *)
(* (firmware_downloader.download_fw) and the per-part loop of              *)
(* __main__.run; of the interactive printer selection                      *)
(* (autodiscover_printer.PrinterDiscoverer) and the text form of a         *)
(* firmware part (models.FWInfo); and of the script oh-brother.py, its     *)
(* loop over the firmware entries (update_firmware).                       *)
(***************************************************************************)
EXTENDS Integers, Sequences, FiniteSets, TLC

VARIABLES
    walk_pc,          \* position of get_snmp_info
    consumed,         \* the raw answers nextCmd has yielded so far, in order
    printer_info,     \* SNMPPrinterInfo: model, serial, spec, fw_versions
    fw_info,          \* the FWInfo accumulator of get_snmp_info
    run_pc,           \* position of __main__.run
    args,             \* the parsed command line: download_only, os, fw_dir
    upload_port,      \* run's upload_port (the MDNS port, or None)
    part_idx,         \* index in fw_versions of the for loop's fw_part (0: not started)
    API_REQUEST_DATA_TEMPLATE,  \* the module-level request document
    neg_pc,           \* state of the latest get_download_url call
    api_request_data, \* get_download_url's request document
    last_callback,    \* the latest modification callback applied, and its argument as
                      \* the callback left it
    attempt,          \* number of modification callbacks applied in this call
    errors,           \* get_download_url's errors list
    sent,             \* the requests posted by this call, in order
    responses,        \* the responses received by this call, in order
    logged,           \* LOGGER records emitted since this call began
    result,           \* (latest_version, download_url) of the latest call
    raised,           \* the exception that left run, if any
    fw_file_path,     \* run's fw_file_path
    downloaded,       \* the download_fw calls made, in order
    uploaded,         \* the upload_fw calls made, in order
    dl_pc,            \* position of a download_fw call followed chunk by chunk
    dl_resp,          \* download_fw's resp: what the download server gives
    dl_total_size,    \* download_fw's total_size
    dl_size_written,  \* download_fw's size_written
    dl_chunks_read,   \* number of chunks iter_content has yielded
    dl_file_size,     \* bytes in out_file (-1: not opened)
    dl_progress,      \* the progress values printed, in order
    dl_raised,        \* the exception that left download_fw, if any
    dl_calls,         \* the (model, part, version) of the download_fw calls made into dst_dir
    dl_dir,           \* the files in dst_dir: name, and the call that wrote it last
    oh_pc,            \* position of oh-brother.py
    oh_env,           \* oh-brother.py's globals: args, serial, model, spec, firmInfo
    oh_entry,         \* index in firmInfo of the entry being updated (0: not started)
    requestInfo,      \* update_firmware's request document
    oh_response,      \* update_firmware's response: what the vendor server answered
    filename,         \* update_firmware's filename
    oh_events,        \* what oh-brother.py has printed, asked and done, in order
    oh_raised,        \* the exception that ended oh-brother.py, if any
    cli_pc,           \* position of PrinterDiscoverer.run_cli
    zc_events,        \* number of zeroconf callbacks delivered to the discoverer
    printers,         \* PrinterDiscoverer._printers
    choice,           \* run_cli's choice
    invalid_answer,   \* PrinterDiscoverer._invalid_answer
    screen,           \* what _update_screen drew last
    cli_inputs,       \* the lines the operator has entered, in order
    cli_result,       \* what run_cli returned or raised
    arg_pc,           \* position of the --fw-versions round trip
    fw_arg,           \* a firmware part, its fields by their characters
    fw_text,          \* the text of a firmware part
    fw_parsed         \* what FWInfo.from_str made of fw_text

walk_vars == <<walk_pc, consumed, fw_info>>

neg_vars == <<neg_pc, api_request_data, last_callback, attempt, errors, sent, responses, logged, result>>

run_vars == <<run_pc, args, upload_port, part_idx, API_REQUEST_DATA_TEMPLATE, neg_vars,
              raised, fw_file_path, downloaded, uploaded>>

dl_vars == <<dl_pc, dl_resp, dl_total_size, dl_size_written, dl_chunks_read,
             dl_file_size, dl_progress, dl_raised, dl_calls, dl_dir>>

oh_vars == <<oh_pc, oh_env, oh_entry, requestInfo, oh_response, filename, oh_events,
             oh_raised>>

cli_vars == <<cli_pc, zc_events, printers, choice, invalid_answer, screen, cli_inputs,
              cli_result>>

arg_vars == <<arg_pc, fw_arg, fw_text, fw_parsed>>

vars == <<walk_vars, printer_info, run_vars, dl_vars, oh_vars, cli_vars, arg_vars>>

\* ------------------------------------------------------------------ bounds

\* Longest answer stream the walk is fed before the source must end.
MaxAnswers == 4

\* Most firmware parts of a printer identity handed to run.
MaxParts == 2

\* Most download_fw calls made into one directory.
MaxDownloads == 2

\* Most bytes a download declares or delivers.
MaxBytes == 3

\* ------------------------------------------------------------------ models.py

\* Python's None, a value no SNMP answer carries.
None == "<None>"

\* FWInfo(): both fields default to None.
FWInfo(firmid, firmver) == [firmid |-> firmid, firmver |-> firmver]

is_complete_onefield(fw) == fw.firmid # None \/ fw.firmver # None

is_complete(fw) == fw.firmid # None /\ fw.firmver # None

is_empty_either(fw) == fw.firmid = None \/ fw.firmver = None

is_empty(fw) == fw.firmid = None /\ fw.firmver = None

\* A str as the sequence of its characters, for the strings that make up a
\* file name; a one-character string is its own character.
Chars(s) ==
    CASE s = "firmware" -> <<"f", "i", "r", "m", "w", "a", "r", "e">>
      [] s = ".djf" -> <<".", "d", "j", "f">>
      [] s = "HL-1" -> <<"H", "L", "-", "1">>
      [] s = "HL-2" -> <<"H", "L", "-", "2">>
      [] s = "MAIN" -> <<"M", "A", "I", "N">>
      [] s = "SUB" -> <<"S", "U", "B">>
      [] s = "1.0" -> <<"1", ".", "0">>
      [] s = "2.0" -> <<"2", ".", "0">>
      [] s = "1.23" -> <<"1", ".", "2", "3">>
      [] s = "12.3" -> <<"1", "2", ".", "3">>
      [] OTHER -> <<s>>

\* FWInfo.__str__ (lines 31-32): firmid@firmver, by its characters.
FWInfo_str(fw) == Chars(fw.firmid) \o <<"@">> \o Chars(fw.firmver)

\* SNMPPrinterInfo(): nothing known, no firmware parts.
SNMPPrinterInfo(model, serial, spec, fw_versions) ==
    [model |-> model, serial |-> serial, spec |-> spec, fw_versions |-> fw_versions]

\* ------------------------------------------------------------------ firmware_downloader.py

\* The request document, by its elements.  SERIALTAG is the name of the first
\* child of MODELINFO and SERIAL its text; FIRMINFO is the list of its FIRM
\* children, each with an ID and a VERSION.
RequestTemplate ==
    [FIRMCATEGORY |-> "", OS |-> "", INSPECTMODE |-> "1",
     SERIALTAG |-> "SERIALNO", SERIAL |-> "", NAME |-> "", SPEC |-> "",
     DRIVER |-> "", FIRMINFO |-> <<>>,
     DRIVERCNT |-> "1", LOGNO |-> "2", ERRBIT |-> "", NEEDRESPONSE |-> "1"]

\* copy(document): a new document with the same content.
copy(data) == data

copied_from_shared(data, written) == written

\* The document `data` once a copy of it has been written to and reads
\* `written`: the copy is a tree of its own, so data reads as before.
copied_from(data, written) == data

\* No modification callback has been applied yet.
NoCallback == [name |-> None, arg |-> RequestTemplate]

FirmElements_reversed(fw_versions) ==
    [i \in 1..Len(fw_versions) |->
        [ID |-> fw_versions[Len(fw_versions) + 1 - i].firmid,
         VERSION |-> fw_versions[Len(fw_versions) + 1 - i].firmver]]

\* FIRM elements appended to FIRMINFO, one per entry of fw_versions (lines 69-76).
FirmElements(fw_versions) ==
    [i \in 1..Len(fw_versions) |->
        [ID |-> fw_versions[i].firmid, VERSION |-> fw_versions[i].firmver]]

\* Lines 59-76: the request built from a copy of the template.
BuildRequest(template, info, reported_os, firmid) ==
    [copy(template) EXCEPT
        !.FIRMCATEGORY = firmid,
        !.OS = reported_os,
        !.NAME = info.model,
        !.SPEC = info.spec,
        !.FIRMINFO = @ \o FirmElements(info.fw_versions)]

apply_mfc_l3750cdw_hack_clears_firminfo(data) ==
    [copy(data) EXCEPT !.DRIVER = "EWS", !.SERIALTAG = "SELIALNO", !.SERIAL = "",
                       !.FIRMINFO = <<>>]

apply_mfc_l3750cdw_hack_spelled_right(data) ==
    [copy(data) EXCEPT !.DRIVER = "EWS", !.SERIALTAG = "SERIALNO", !.SERIAL = ""]

\* Lines 166-180: on a copy, DRIVER becomes "EWS" and SERIALNO is replaced by
\* a new, empty SELIALNO element.
apply_mfc_l3750cdw_hack(data) ==
    [copy(data) EXCEPT !.DRIVER = "EWS", !.SERIALTAG = "SELIALNO", !.SERIAL = ""]

ModificationCallbacks_hack_first == <<"apply_mfc_l3750cdw_hack", "copy">>

\* Line 80: the callbacks of the attempt loop, in order.
ModificationCallbacks == <<"copy", "apply_mfc_l3750cdw_hack">>

ApplyCallback(cb, data) ==
    IF cb = "copy" THEN copy(data) ELSE apply_mfc_l3750cdw_hack(data)

\* A response of the update endpoint: its HTTP status and, per tag name, the
\* texts of the tags of that name in its body, in document order.
Response(status_code, vc, lv, fid, path) ==
    [status_code |-> status_code, VERSIONCHECK |-> vc, LATESTVERSION |-> lv,
     FIRMID |-> fid, PATH |-> path]

FwUrl == "https://x/fw.bin"

\* The responses the endpoint is let to give.
Responses ==
    {Response(200, <<"0">>, lv, fid, path) :
        lv \in {<<>>, <<"1.23">>},
        fid \in {<<>>, <<"MAIN">>, <<"SUB">>},
        path \in {<<>>, <<FwUrl>>, <<FwUrl, FwUrl>>}}
    \cup {Response(200, vc, <<"1.23">>, <<"MAIN">>, <<FwUrl>>) :
            vc \in {<<>>, <<"1">>, <<"2">>, <<"3">>, <<"1", "1">>}}
    \cup {Response(200, <<>>, <<>>, <<>>, <<>>)}      \* a body with none of the tags
    \cup {Response(500, <<>>, <<>>, <<>>, <<>>)}      \* an HTTP error status

raise_for_status_never(resp) == FALSE

raise_for_status_5xx_only(resp) == resp.status_code >= 500

\* resp.raise_for_status() raises for a 4xx or 5xx status.
raise_for_status(resp) == resp.status_code >= 400

ValueError(msg, name, resp) ==
    [type |-> "ValueError", msg |-> msg, name |-> name, response |-> resp]

\* A LOGGER record: its level, its message, and the exception logged, if any.
LogRecord(level, what) == [level |-> level, what |-> what, err |-> <<>>]

\* LOGGER.error(err) for an exception.
LogError(err) == [level |-> "error", what |-> err.msg, err |-> <<err>>]

select_one_error_first_wins(resp, name) ==
    IF Len(resp[name]) = 0 THEN <<ValueError("expected tag", name, resp)>>
    ELSE <<>>

\* select_one(name), lines 114-124: <<>> when it returns, else the ValueError.
select_one_error(resp, name) ==
    IF Len(resp[name]) > 1 THEN <<ValueError("expected only one tag", name, resp)>>
    ELSE IF Len(resp[name]) = 0 THEN <<ValueError("expected tag", name, resp)>>
    ELSE <<>>

select_one_text_tag_name(resp, name) == name

\* select_one(name), line 124: the text of the one tag found.
select_one_text(resp, name) == resp[name][1]

Returned(value, log) == [value |-> value, errs |-> <<>>, log |-> log]

Raises(err, log) == [value |-> <<None, None>>, errs |-> err, log |-> log]

\* parse_response in which VERSIONCHECK "2" is an unknown value like any other.
parse_response_unknown_raises(response, firmid) ==
    IF select_one_error(response, "VERSIONCHECK") # <<>>
    THEN Raises(select_one_error(response, "VERSIONCHECK"), <<>>)
    ELSE IF select_one_text(response, "VERSIONCHECK") = "1"
    THEN Returned(<<None, None>>, <<LogRecord("success", "up to date")>>)
    ELSE IF select_one_text(response, "VERSIONCHECK") # "0"
    THEN Raises(<<ValueError("unknown versioncheck", "VERSIONCHECK", response)>>, <<>>)
    ELSE IF select_one_error(response, "LATESTVERSION") # <<>>
    THEN Raises(select_one_error(response, "LATESTVERSION"), <<>>)
    ELSE IF select_one_error(response, "FIRMID") # <<>>
    THEN Raises(select_one_error(response, "FIRMID"), <<LogRecord("info", "update required")>>)
    ELSE IF select_one_error(response, "PATH") # <<>>
    THEN Raises(select_one_error(response, "PATH"), <<LogRecord("info", "update required")>>)
    ELSE Returned(<<select_one_text(response, "LATESTVERSION"),
                    select_one_text(response, "PATH")>>,
                  <<LogRecord("info", "update required")>>)

\* parse_response in which VERSIONCHECK "1" is not recognised.
parse_response_no_uptodate(response, firmid) ==
    IF select_one_error(response, "VERSIONCHECK") # <<>>
    THEN Raises(select_one_error(response, "VERSIONCHECK"), <<>>)
    ELSE IF select_one_text(response, "VERSIONCHECK") = "2"
    THEN Returned(<<None, None>>, <<LogRecord("error", "versioncheck 2")>>)
    ELSE IF select_one_text(response, "VERSIONCHECK") # "0"
    THEN Raises(<<ValueError("unknown versioncheck", "VERSIONCHECK", response)>>, <<>>)
    ELSE IF select_one_error(response, "LATESTVERSION") # <<>>
    THEN Raises(select_one_error(response, "LATESTVERSION"), <<>>)
    ELSE IF select_one_error(response, "FIRMID") # <<>>
    THEN Raises(select_one_error(response, "FIRMID"), <<LogRecord("info", "update required")>>)
    ELSE IF select_one_error(response, "PATH") # <<>>
    THEN Raises(select_one_error(response, "PATH"), <<LogRecord("info", "update required")>>)
    ELSE Returned(<<select_one_text(response, "LATESTVERSION"),
                    select_one_text(response, "PATH")>>,
                  <<LogRecord("info", "update required")>>)

\* parse_response in which a FIRMID other than the requested one is an error.
parse_response_firmid_strict(response, firmid) ==
    IF select_one_error(response, "VERSIONCHECK") # <<>>
    THEN Raises(select_one_error(response, "VERSIONCHECK"), <<>>)
    ELSE IF select_one_text(response, "VERSIONCHECK") = "1"
    THEN Returned(<<None, None>>, <<LogRecord("success", "up to date")>>)
    ELSE IF select_one_text(response, "VERSIONCHECK") = "2"
    THEN Returned(<<None, None>>, <<LogRecord("error", "versioncheck 2")>>)
    ELSE IF select_one_text(response, "VERSIONCHECK") # "0"
    THEN Raises(<<ValueError("unknown versioncheck", "VERSIONCHECK", response)>>, <<>>)
    ELSE IF select_one_error(response, "LATESTVERSION") # <<>>
    THEN Raises(select_one_error(response, "LATESTVERSION"), <<>>)
    ELSE IF select_one_error(response, "FIRMID") # <<>>
    THEN Raises(select_one_error(response, "FIRMID"), <<LogRecord("info", "update required")>>)
    ELSE IF select_one_text(response, "FIRMID") # firmid
    THEN Raises(<<ValueError("firmid differs", "FIRMID", response)>>,
                <<LogRecord("info", "update required")>>)
    ELSE IF select_one_error(response, "PATH") # <<>>
    THEN Raises(select_one_error(response, "PATH"), <<LogRecord("info", "update required")>>)
    ELSE Returned(<<select_one_text(response, "LATESTVERSION"),
                    select_one_text(response, "PATH")>>,
                  <<LogRecord("info", "update required")>>)

\* parse_response(response, firmid), lines 108-163: the value returned, or
\* the ValueError raised, and the records logged on the way.
parse_response(response, firmid) ==
    LET vc_err == select_one_error(response, "VERSIONCHECK")
        versioncheck_val == select_one_text(response, "VERSIONCHECK")
        lv_err == select_one_error(response, "LATESTVERSION")
        info == <<LogRecord("info", "update required")>>
        fid_err == select_one_error(response, "FIRMID")
        warn == IF select_one_text(response, "FIRMID") # firmid
                THEN <<LogRecord("warning", "firmid differs")>>
                ELSE <<>>
        path_err == select_one_error(response, "PATH")
    IN IF vc_err # <<>> THEN Raises(vc_err, <<>>)
       ELSE IF versioncheck_val = "1"
       THEN Returned(<<None, None>>, <<LogRecord("success", "up to date")>>)
       ELSE IF versioncheck_val = "2"
       THEN Returned(<<None, None>>, <<LogRecord("error", "versioncheck 2")>>)
       ELSE IF versioncheck_val # "0"
       THEN Raises(<<ValueError("unknown versioncheck", "VERSIONCHECK", response)>>, <<>>)
       ELSE IF lv_err # <<>> THEN Raises(lv_err, <<>>)
       ELSE IF fid_err # <<>> THEN Raises(fid_err, info)
       ELSE IF path_err # <<>> THEN Raises(path_err, info \o warn)
       ELSE Returned(<<select_one_text(response, "LATESTVERSION"),
                       select_one_text(response, "PATH")>>,
                     info \o warn)

errors_append_keep_last(errs, err) == <<err>>

\* errors.append(err), line 101.
errors_append(errs, err) == Append(errs, err)

NoException == [type |-> "None", message |-> "", exceptions |-> <<>>]

\* Line 105: ExceptionGroup("Giving up fetching firmware.", errors).
ExceptionGroup(message, errs) ==
    [type |-> "ExceptionGroup", message |-> message, exceptions |-> errs]

\* An exception that is no group (HTTPError, ZeroDivisionError, AttributeError).
Exception(type) == [type |-> type, message |-> "", exceptions |-> <<>>]

\* ------------------------------------------------------------------ utils.py

\* GitHubIssueReporter.__exit__, lines 58-63: what it logs for the exception.
ReporterExitLog(exc) ==
    IF exc.type = "ExceptionGroup"
    THEN <<LogRecord("error", exc.message)>>
         \o [i \in 1..Len(exc.exceptions) |-> LogError(exc.exceptions[i])]
    ELSE <<LogRecord("error", exc.type)>>

ascii_lowercase ==
    <<"a", "b", "c", "d", "e", "f", "g", "h", "i", "j", "k", "l", "m",
      "n", "o", "p", "q", "r", "s", "t", "u", "v", "w", "x", "y", "z">>

ascii_uppercase ==
    <<"A", "B", "C", "D", "E", "F", "G", "H", "I", "J", "K", "L", "M",
      "N", "O", "P", "Q", "R", "S", "T", "U", "V", "W", "X", "Y", "Z">>

digits == <<"0", "1", "2", "3", "4", "5", "6", "7", "8", "9">>

CharsOf(s) == {s[i] : i \in DOMAIN s}

\* str.lower() on one character.
lower(c) ==
    IF c \in CharsOf(ascii_uppercase)
    THEN ascii_lowercase[CHOOSE i \in DOMAIN ascii_uppercase : ascii_uppercase[i] = c]
    ELSE c

\* str.strip(): leading and trailing whitespace removed.
RECURSIVE strip(_)
strip(value) ==
    IF value = <<>> THEN value
    ELSE IF Head(value) = " " THEN strip(Tail(value))
    ELSE IF value[Len(value)] = " " THEN strip(SubSeq(value, 1, Len(value) - 1))
    ELSE value

\* sluggify lines 254-259: the translation table and the characters kept.
trans_tab(c) ==
    CASE c = " " -> "_"
      [] c = "@" -> "-"
      [] c = ":" -> "-"
      [] OTHER -> c

allowed_chars ==
    CharsOf(ascii_lowercase) \cup CharsOf(ascii_uppercase) \cup CharsOf(digits)
        \cup {"_", "-"}

\* sluggify lines 263-265.
sluggify(value) ==
    LET stripped == strip(value)
        translated == [i \in DOMAIN stripped |-> trans_tab(lower(stripped[i]))]
    IN SelectSeq(translated, LAMBDA c : c \in allowed_chars)

\* ------------------------------------------------------------------ __main__.py

\* The state of the run's variables before run is entered.
RunNotStarted ==
    /\ run_pc = "idle"
    /\ args = [download_only |-> FALSE, os |-> "LINUX", fw_dir |-> "."]
    /\ upload_port = <<>>
    /\ part_idx = 0
    /\ API_REQUEST_DATA_TEMPLATE = RequestTemplate
    /\ neg_pc = "idle"
    /\ api_request_data = RequestTemplate
    /\ last_callback = NoCallback
    /\ attempt = 0
    /\ errors = <<>>
    /\ sent = <<>>
    /\ responses = <<>>
    /\ logged = <<>>
    /\ result = <<None, None>>
    /\ raised = NoException
    /\ fw_file_path = None
    /\ downloaded = <<>>
    /\ uploaded = <<>>

\* The state of a download_fw call's variables before it is entered.
DownloadNotStarted ==
    /\ dl_pc = "idle"
    /\ dl_resp = [status_code |-> 200, content_length |-> <<>>, chunks |-> <<>>]
    /\ dl_total_size = 0
    /\ dl_size_written = 0
    /\ dl_chunks_read = 0
    /\ dl_file_size = -1
    /\ dl_progress = <<>>
    /\ dl_raised = None
    /\ dl_calls = <<>>
    /\ dl_dir = {}

\* ------------------------------------------------------------------ oh-brother.py

\* Lines 35-58: the request document of oh-brother.py, in the form of
\* RequestTemplate; its FIRMINFO holds one FIRM element with no children.
reqInfo ==
    [FIRMCATEGORY |-> "", OS |-> "LINUX", INSPECTMODE |-> "1",
     SERIALTAG |-> "SELIALNO", SERIAL |-> "", NAME |-> "", SPEC |-> "",
     DRIVER |-> "EWS", FIRMINFO |-> <<[ID |-> None, VERSION |-> None]>>,
     DRIVERCNT |-> "1", LOGNO |-> "2", ERRBIT |-> "", NEEDRESPONSE |-> "1"]

\* The globals of oh-brother.py when its loop over firmInfo begins.
OhEnv(test, password, firmInfo) ==
    [args |-> [test |-> test, password |-> password],
     serial |-> "S1", model |-> "HL-1", spec |-> "0403", firmInfo |-> firmInfo]

\* The state of oh-brother.py's variables when it is not the program run.
OhNotStarted ==
    /\ oh_pc = "idle"
    /\ oh_env = OhEnv(FALSE, None, <<>>)
    /\ oh_entry = 0
    /\ requestInfo = reqInfo
    /\ oh_response = Response(200, <<>>, <<>>, <<>>, <<>>)
    /\ filename = None
    /\ oh_events = <<>>
    /\ oh_raised = None

\* ------------------------------------------------------------------ autodiscover_printer.py

\* Line 171: "No printers found yet. [Enter: Cancel]", as the range of
\* numbers that prompt offers.
NoPrintersPrompt == [first |-> 0, last |-> -1]

\* clear_screen(): nothing is shown.
ClearedScreen == [shown |-> FALSE, invalid |-> FALSE, range |-> NoPrintersPrompt]

\* PrinterDiscoverer.__init__ (lines 26-31) and the state of run_cli's
\* variables when no selection is run.
CliNotStarted ==
    /\ cli_pc = "idle"
    /\ zc_events = 0
    /\ printers = <<>>
    /\ choice = <<>>
    /\ invalid_answer = FALSE
    /\ screen = ClearedScreen
    /\ cli_inputs = <<>>
    /\ cli_result = [returned |-> <<>>, raised |-> None]

\* No --fw-versions text is being parsed.
ArgNotStarted ==
    /\ arg_pc = "idle"
    /\ fw_arg = <<>>
    /\ fw_text = <<>>
    /\ fw_parsed = [part |-> <<>>, raised |-> None]

\* ------------------------------------------------------------------ snmp_info.py

\* A raw answer, str(var_bind[1]).strip(), by the parts SNMP_RE looks at:
\* the word it starts with, whether  = "..."  follows that word, and the
\* text between the quotes.  The empty string has no word and no quotes.
RawAnswer(name, quoted, value) == [name |-> name, quoted |-> quoted, value |-> value]

EmptyData == RawAnswer("", FALSE, "")

\* Words made of the letters A-Z only (the words [A-Z]+ matches in full).
UpperWords == {"MODEL", "SERIAL", "SPEC", "FIRMID", "FIRMVER", "FOO"}

FirmNames == {"FIRMID", "FIRMVER"}

KnownNames == {"MODEL", "SERIAL", "SPEC"} \cup FirmNames

NoMatch == [name |-> None, value |-> None]

\* SNMP_RE.match(data): (?P<name>[A-Z]+) ?= ?"(?P<value>.*)" anchored at the
\* start of data.  The value may be empty (.*).
SNMP_RE_match(data) ==
    IF data.quoted /\ data.name \in UpperWords
    THEN [name |-> data.name, value |-> data.value]
    ELSE NoMatch

\* The answers the walk is fed.
Answers ==
    {RawAnswer("FIRMID", TRUE, v) : v \in {"", "MAIN", "SUB"}}
    \cup {RawAnswer("FIRMVER", TRUE, v) : v \in {"", "1.0", "2.0"}}
    \cup {RawAnswer("MODEL", TRUE, v) : v \in {"HL-1", "HL-2"}}
    \cup {RawAnswer("SERIAL", TRUE, v) : v \in {"S1", "S2"}}
    \cup {RawAnswer("SPEC", TRUE, v) : v \in {"0403", "0404"}}
    \cup {RawAnswer("FOO", TRUE, "x")}          \* an upper-case word outside the five names
    \cup {RawAnswer("model", TRUE, "HL-1")}     \* lower-case word: [A-Z]+ fails
    \cup {RawAnswer("MODEL", FALSE, "")}        \* no  = "..."  part
    \cup {EmptyData}

IdentityNames == {"MODEL", "SERIAL", "SPEC"}

SetIdentityAttr_first_write_wins(info, name, value) ==
    IF name = "MODEL" THEN [info EXCEPT !.model = IF @ = None THEN value ELSE @]
    ELSE IF name = "SERIAL" THEN [info EXCEPT !.serial = IF @ = None THEN value ELSE @]
    ELSE [info EXCEPT !.spec = IF @ = None THEN value ELSE @]

\* Lines 85-90: printer_info.model, .serial or .spec is assigned the value.
SetIdentityAttr(info, name, value) ==
    IF name = "MODEL" THEN [info EXCEPT !.model = value]
    ELSE IF name = "SERIAL" THEN [info EXCEPT !.serial = value]
    ELSE [info EXCEPT !.spec = value]

SetFirmAttr_keep_first(fw, name, value) ==
    IF name = "FIRMID" THEN [fw EXCEPT !.firmid = IF @ = None THEN value ELSE @]
                       ELSE [fw EXCEPT !.firmver = value]

\* setattr(fw_info, name.lower(), value)
SetFirmAttr(fw, name, value) ==
    IF name = "FIRMID" THEN [fw EXCEPT !.firmid = value]
                       ELSE [fw EXCEPT !.firmver = value]

AfterLoop_keeps_walking(fw) == IF ~is_empty(fw) THEN "exit_incomplete" ELSE "walking"

\* Lines 99-105: after the loop, exit(1) unless the accumulator is empty.
AfterLoop(fw) == IF ~is_empty(fw) THEN "exit_incomplete" ELSE "returned"

\* One iteration of the for loop (lines 70-97) on the answer `data`.
WalkIteration(data) ==
    /\ walk_pc = "walking"
    /\ data # EmptyData => Len(consumed) < MaxAnswers
    /\ consumed' = Append(consumed, data)
    /\ UNCHANGED <<run_vars, dl_vars, oh_vars, cli_vars,
                   arg_vars>>
    /\ LET match == SNMP_RE_match(data)
           name == match.name
           value == match.value
       IN IF data = EmptyData
          THEN \* if not data: break
               /\ walk_pc' = AfterLoop(fw_info)
               /\ UNCHANGED <<printer_info, fw_info>>
          ELSE IF match = NoMatch
          THEN \* print_error; sys.exit(1)
               /\ walk_pc' = "exit_nomatch"
               /\ UNCHANGED <<printer_info, fw_info>>
          ELSE IF name \in IdentityNames
          THEN /\ printer_info' = SetIdentityAttr(printer_info, name, value)
               /\ UNCHANGED <<walk_pc, fw_info>>
          ELSE IF name \in FirmNames /\ value # ""
          THEN LET set == SetFirmAttr(fw_info, name, value)
               IN IF is_complete(set)
                  THEN /\ printer_info' =
                            [printer_info EXCEPT
                                !.fw_versions = Append(@, set)]
                       /\ fw_info' = FWInfo(None, None)
                       /\ UNCHANGED walk_pc
                  ELSE /\ fw_info' = set
                       /\ UNCHANGED <<walk_pc, printer_info>>
          ELSE \* an empty FIRMID/FIRMVER value, or a name no branch handles
               UNCHANGED <<walk_pc, printer_info, fw_info>>

\* nextCmd's generator ends without an empty answer: the loop ends.
WalkExhausted ==
    /\ walk_pc = "walking"
    /\ walk_pc' = AfterLoop(fw_info)
    /\ UNCHANGED <<consumed, printer_info, fw_info, run_vars, dl_vars, oh_vars, cli_vars,
                   arg_vars>>

\* Lines 63-69: error_indication or error_status: print_error; sys.exit(1).
WalkSnmpError ==
    /\ walk_pc = "walking"
    /\ walk_pc' = "exit_snmp_error"
    /\ UNCHANGED <<consumed, printer_info, fw_info, run_vars, dl_vars, oh_vars, cli_vars,
                   arg_vars>>

InitWalk ==
    /\ CliNotStarted
    /\ ArgNotStarted
    /\ walk_pc = "walking"
    /\ consumed = <<>>
    /\ printer_info = SNMPPrinterInfo(None, None, None, <<>>)
    /\ fw_info = FWInfo(None, None)
    /\ RunNotStarted
    /\ DownloadNotStarted
    /\ OhNotStarted

NextWalk ==
    \/ \E data \in Answers : WalkIteration(data)
    \/ WalkExhausted
    \/ WalkSnmpError

SpecWalk == InitWalk /\ [][NextWalk]_vars

\* ------------------------------------------------------------------ __main__.run

Parts == {FWInfo("MAIN", "1.0"), FWInfo("SUB", "2.0")}

PartLists == UNION {[1..n -> Parts] : n \in 0..MaxParts}

\* The identities run works on (from the walk, or from the command line).
Identities == {SNMPPrinterInfo("HL-1", "S1", "0403", fws) : fws \in PartLists}

\* if not download_url (line 238): None or the empty string.
NoUrl(url) == url = None \/ url = ""

\* An exception leaves run: GitHubIssueReporter.__exit__ logs it and exits.
Abort(exc, log) ==
    /\ run_pc' = "aborted"
    /\ raised' = exc
    /\ logged' = log \o ReporterExitLog(exc)

\* Lines 229-236 and get_download_url lines 59-78: the loop takes the next
\* firmware part and get_download_url builds its request.
RunNextPart ==
    /\ run_pc = "loop"
    /\ part_idx < Len(printer_info.fw_versions)
    /\ part_idx' = part_idx + 1
    /\ run_pc' = "get_download_url"
    /\ neg_pc' = "attempting"
    /\ LET built == BuildRequest(API_REQUEST_DATA_TEMPLATE, printer_info, args.os,
                              printer_info.fw_versions[part_idx + 1].firmid)
       IN /\ api_request_data' = built
          /\ API_REQUEST_DATA_TEMPLATE' = copied_from(API_REQUEST_DATA_TEMPLATE, built)
    /\ attempt' = 0
    /\ errors' = <<>>
    /\ sent' = <<>>
    /\ responses' = <<>>
    /\ logged' = <<>>
    /\ UNCHANGED <<walk_vars, dl_vars, oh_vars, printer_info, args, upload_port,
                   last_callback, result, raised, fw_file_path, downloaded, uploaded, cli_vars,
                   arg_vars>>

\* Line 273: the loop is over, LOGGER.success("Done.").
RunDone ==
    /\ run_pc = "loop"
    /\ part_idx = Len(printer_info.fw_versions)
    /\ run_pc' = "done"
    /\ UNCHANGED <<walk_vars, dl_vars, oh_vars, printer_info, args, upload_port, part_idx,
                   API_REQUEST_DATA_TEMPLATE, neg_vars, raised, fw_file_path,
                   downloaded, uploaded, cli_vars,
                   arg_vars>>

\* get_download_url lines 80-105, one pass of the callback loop with the
\* endpoint answering resp, and what run does with the outcome (lines 238-241).
NegAttempt(resp) ==
    /\ run_pc = "get_download_url"
    /\ neg_pc = "attempting"
    /\ attempt < Len(ModificationCallbacks)
    /\ LET cb == ModificationCallbacks[attempt + 1]
           data == ApplyCallback(cb, api_request_data)
           firmid == printer_info.fw_versions[part_idx].firmid
           parsed == parse_response(resp, firmid)
           hacklog == IF cb = "apply_mfc_l3750cdw_hack"
                      THEN <<LogRecord("info", "Retry with MFC-L3750CDW hack...")>>
                      ELSE <<>>
           errs == errors_append(errors, parsed.errs[1])
       IN /\ api_request_data' = data
          /\ last_callback' = [name |-> cb, arg |-> copied_from(api_request_data, data)]
          /\ attempt' = attempt + 1
          /\ sent' = Append(sent, data)
          /\ responses' = Append(responses, resp)
          /\ IF raise_for_status(resp)
             THEN \* HTTPError: leaves get_download_url and run
                  /\ neg_pc' = "raised_http"
                  /\ Abort(Exception("HTTPError"), logged \o hacklog)
                  /\ UNCHANGED <<errors, result>>
             ELSE IF parsed.errs = <<>>
             THEN \* return parse_response(...)
                  /\ neg_pc' = "returned"
                  /\ result' = parsed.value
                  /\ logged' = logged \o hacklog \o parsed.log
                  /\ run_pc' = IF NoUrl(parsed.value[2]) THEN "loop" ELSE "download_fw"
                  /\ UNCHANGED <<errors, raised>>
             ELSE IF attempt + 1 < Len(ModificationCallbacks)
             THEN \* except ValueError: errors.append; LOGGER.error; continue
                  /\ errors' = errs
                  /\ logged' = logged \o hacklog \o parsed.log \o <<LogError(parsed.errs[1])>>
                  /\ UNCHANGED <<neg_pc, result, run_pc, raised>>
             ELSE \* the loop is over: raise ExceptionGroup(..., errors)
                  /\ errors' = errs
                  /\ neg_pc' = "raised_group"
                  /\ Abort(ExceptionGroup("Giving up fetching firmware.", errs),
                           logged \o hacklog \o parsed.log \o <<LogError(parsed.errs[1])>>)
                  /\ UNCHANGED result
    /\ UNCHANGED <<walk_vars, dl_vars, oh_vars, printer_info, args, upload_port, part_idx,
                   API_REQUEST_DATA_TEMPLATE, fw_file_path, downloaded, uploaded, cli_vars,
                   arg_vars>>

\* The sizes of the chunks iter_content may yield: every way of delivering
\* at most MaxBytes bytes in non-empty chunks.
RECURSIVE SumSeq(_)
SumSeq(s) == IF s = <<>> THEN 0 ELSE Head(s) + SumSeq(Tail(s))

ChunkLists ==
    {ch \in UNION {[1..n -> 1..MaxBytes] : n \in 0..MaxBytes} : SumSeq(ch) <= MaxBytes}

\* What the download server gives: status, Content-Length (absent: <<>>), and
\* the sizes of the chunks iter_content yields.
DownloadResponses ==
    {[status_code |-> 404, content_length |-> <<>>, chunks |-> <<>>]}
    \cup {[status_code |-> 200, content_length |-> cl, chunks |-> ch] :
            cl \in {<<>>} \cup {<<n>> : n \in 0..MaxBytes}, ch \in ChunkLists}

\* The download responses run is given: those that declare MaxBytes bytes or
\* no length and deliver nothing or MaxBytes bytes in one chunk.
RunDownloadResponses ==
    {dl \in DownloadResponses :
        /\ dl.content_length \in {<<>>, <<MaxBytes>>}
        /\ dl.chunks \in {<<>>, <<MaxBytes>>}}

\* int(resp.headers.get("content-length", 0))
TotalSize(dl) == IF dl.content_length = <<>> THEN 0 ELSE dl.content_length[1]

Progress_no_percent(size_written, total_size) == [num |-> size_written, den |-> total_size]

\* progress = size_written / total_size * 100 (line 204), as the exact
\* fraction num / den.
Progress(size_written, total_size) == [num |-> size_written * 100, den |-> total_size]

\* download_fw lines 201-205 on the first n chunks: the bytes written to the
\* file and the progress values printed; the division by a total_size of 0
\* raises ZeroDivisionError after the chunk is written.
RECURSIVE WriteChunks(_, _, _)
WriteChunks(chunks, n, total_size) ==
    IF n = 0 THEN [size_written |-> 0, progress |-> <<>>, zero_division |-> FALSE]
    ELSE LET before == WriteChunks(chunks, n - 1, total_size)
             size_written == before.size_written + chunks[n]
         IN IF before.zero_division THEN before
            ELSE IF total_size = 0
            THEN [size_written |-> size_written, progress |-> before.progress,
                  zero_division |-> TRUE]
            ELSE [size_written |-> size_written,
                  progress |-> Append(before.progress, Progress(size_written, total_size)),
                  zero_division |-> FALSE]

\* Lines 197-199: dst_dir / (sluggify(f"firmware-{model}-{fw_part}-{version}") + ".djf")
OutFile(dst_dir, printer_model, fw_part, latest_version) ==
    [parent |-> dst_dir,
     name |-> sluggify(Chars("firmware") \o <<"-">> \o Chars(printer_model) \o <<"-">>
                       \o FWInfo_str(fw_part) \o <<"-">> \o Chars(latest_version))
              \o Chars(".djf")]

\* Lines 245-254: download_fw (firmware_downloader.py lines 183-207), whose
\* return value (None: it has no return statement) becomes fw_file_path,
\* and the download_only branch.
RunDownload(dl) ==
    /\ run_pc = "download_fw"
    /\ LET written == WriteChunks(dl.chunks, Len(dl.chunks), TotalSize(dl))
           exc == IF raise_for_status(dl) THEN "HTTPError"
                  ELSE IF written.zero_division THEN "ZeroDivisionError"
                  ELSE None
           call == [part |-> part_idx, url |-> result[2], latest_version |-> result[1],
                    status_code |-> dl.status_code,
                    content_length |-> dl.content_length, chunks |-> dl.chunks,
                    opened |-> ~raise_for_status(dl),
                    out_file |-> OutFile(args.fw_dir, printer_info.model,
                                         printer_info.fw_versions[part_idx], result[1]),
                    size_written |-> IF raise_for_status(dl) THEN 0 ELSE written.size_written,
                    progress |-> IF raise_for_status(dl) THEN <<>> ELSE written.progress,
                    raised |-> exc,
                    returned |-> None]
       IN /\ downloaded' = Append(downloaded, call)
          /\ IF exc # None
             THEN /\ Abort(Exception(exc), logged)
                  /\ UNCHANGED fw_file_path
             ELSE /\ fw_file_path' = call.returned
                  /\ run_pc' = IF args.download_only THEN "loop" ELSE "upload_fw"
                  /\ UNCHANGED <<raised, logged>>
    /\ UNCHANGED <<walk_vars, dl_vars, oh_vars, printer_info, args, upload_port, part_idx,
                   API_REQUEST_DATA_TEMPLATE, neg_pc, api_request_data, last_callback, attempt,
                   errors, sent, responses, result, uploaded, cli_vars,
                   arg_vars>>

\* A port the MDNS discovery reports, and the port the services database
\* has for "pdl-datastream"; each differs from the other and from 9100.
GivenPort == 9101

ServicePort == 9102

ResolvePort_lookup_first(port, lookup) ==
    IF lookup # <<>> THEN lookup[1]
    ELSE IF port # <<>> THEN port[1]
    ELSE 9100

\* firmware_uploader.py lines 25-29: the given port, else the port of the
\* service name (lookup: <<>> when getservbyname fails), else 9100.
ResolvePort(port, lookup) ==
    IF port # <<>> THEN port[1]
    ELSE IF lookup # <<>> THEN lookup[1]
    ELSE 9100

\* Lines 256-271: upload_fw (firmware_uploader.py lines 25-35) and run's
\* handling of it.  An OSError of the connection is caught and the loop
\* continues; opening fw_file_path fails with AttributeError when it is None.
RunUpload(lookup, conn_ok) ==
    /\ run_pc = "upload_fw"
    /\ LET call == [part |-> part_idx, port |-> ResolvePort(upload_port, lookup),
                    given_port |-> upload_port,
                    lookup |-> IF upload_port # <<>> THEN <<>> ELSE lookup,
                    fw_file_path |-> fw_file_path,
                    connected |-> conn_ok,
                    file_sent |-> conn_ok /\ fw_file_path # None]
       IN /\ uploaded' = Append(uploaded, call)
          /\ IF ~conn_ok
             THEN \* except OSError: LOGGER.error(...); continue
                  /\ logged' = Append(logged, LogRecord("error", "Could not upload firmware"))
                  /\ run_pc' = "loop"
                  /\ UNCHANGED raised
             ELSE IF fw_file_path = None
             THEN Abort(Exception("AttributeError"), logged)
             ELSE \* sendfile, then input("Continue? ")
                  /\ run_pc' = "loop"
                  /\ UNCHANGED <<raised, logged>>
    /\ UNCHANGED <<walk_vars, dl_vars, oh_vars, printer_info, args, upload_port, part_idx,
                   API_REQUEST_DATA_TEMPLATE, neg_pc, api_request_data, last_callback, attempt,
                   errors, sent, responses, result, fw_file_path, downloaded, cli_vars,
                   arg_vars>>

\* run has the identity and enters the loop over its firmware parts.
InitRun ==
    /\ CliNotStarted
    /\ ArgNotStarted
    /\ walk_pc = "returned"
    /\ consumed = <<>>
    /\ fw_info = FWInfo(None, None)
    /\ printer_info \in Identities
    /\ run_pc = "loop"
    /\ args \in [download_only : BOOLEAN, os : {"LINUX"}, fw_dir : {"."}]
    /\ upload_port \in {<<>>, <<GivenPort>>}
    /\ part_idx = 0
    /\ API_REQUEST_DATA_TEMPLATE = RequestTemplate
    /\ neg_pc = "idle"
    /\ api_request_data = RequestTemplate
    /\ last_callback = NoCallback
    /\ attempt = 0
    /\ errors = <<>>
    /\ sent = <<>>
    /\ responses = <<>>
    /\ logged = <<>>
    /\ result = <<None, None>>
    /\ raised = NoException
    /\ fw_file_path = None
    /\ downloaded = <<>>
    /\ uploaded = <<>>
    /\ DownloadNotStarted
    /\ OhNotStarted

NextRun ==
    \/ RunNextPart
    \/ RunDone
    \/ \E resp \in Responses : NegAttempt(resp)
    \/ \E dl \in RunDownloadResponses : RunDownload(dl)
    \/ \E lookup \in {<<>>, <<ServicePort>>}, conn_ok \in BOOLEAN : RunUpload(lookup, conn_ok)

SpecRun == InitRun /\ [][NextRun]_vars

\* ------------------------------------------------------------------ download_fw, chunk by chunk

\* Lines 191-195: requests.get, raise_for_status, total_size; the file is
\* opened at line 201.
DownloadGet ==
    /\ dl_pc = "get"
    /\ IF raise_for_status(dl_resp)
       THEN /\ dl_pc' = "raised"
            /\ dl_raised' = "HTTPError"
            /\ UNCHANGED <<dl_total_size, dl_size_written, dl_file_size>>
       ELSE /\ dl_pc' = "writing"
            /\ dl_total_size' = TotalSize(dl_resp)
            /\ dl_size_written' = 0
            /\ dl_file_size' = 0
            /\ UNCHANGED dl_raised
    /\ UNCHANGED <<dl_resp, dl_chunks_read, dl_progress, dl_calls, dl_dir,
                   walk_vars, printer_info, run_vars, oh_vars, cli_vars,
                   arg_vars>>

\* Lines 202-205, one pass of the loop over iter_content: the chunk is
\* written, then progress is computed and printed.
DownloadChunk ==
    /\ dl_pc = "writing"
    /\ dl_chunks_read < Len(dl_resp.chunks)
    /\ LET chunk == dl_resp.chunks[dl_chunks_read + 1]
       IN /\ dl_chunks_read' = dl_chunks_read + 1
          /\ dl_file_size' = dl_file_size + chunk
          /\ dl_size_written' = dl_size_written + chunk
          /\ IF dl_total_size = 0
             THEN \* ZeroDivisionError at line 204
                  /\ dl_pc' = "raised"
                  /\ dl_raised' = "ZeroDivisionError"
                  /\ UNCHANGED dl_progress
             ELSE /\ dl_progress' =
                        Append(dl_progress, Progress(dl_size_written + chunk, dl_total_size))
                  /\ UNCHANGED <<dl_pc, dl_raised>>
    /\ UNCHANGED <<dl_resp, dl_total_size, dl_calls, dl_dir,
                   walk_vars, printer_info, run_vars, oh_vars, cli_vars,
                   arg_vars>>

\* Line 207: the chunks are exhausted, download_fw returns.
DownloadReturn ==
    /\ dl_pc = "writing"
    /\ dl_chunks_read = Len(dl_resp.chunks)
    /\ dl_pc' = "returned"
    /\ UNCHANGED <<dl_resp, dl_total_size, dl_size_written, dl_chunks_read, dl_file_size,
                   dl_progress, dl_raised, dl_calls, dl_dir,
                   walk_vars, printer_info, run_vars, oh_vars, cli_vars,
                   arg_vars>>

\* download_fw is called; the server will give any of DownloadResponses.
InitDownload ==
    /\ CliNotStarted
    /\ ArgNotStarted
    /\ walk_pc = "idle"
    /\ consumed = <<>>
    /\ printer_info = SNMPPrinterInfo(None, None, None, <<>>)
    /\ fw_info = FWInfo(None, None)
    /\ RunNotStarted
    /\ OhNotStarted
    /\ dl_pc = "get"
    /\ dl_resp \in DownloadResponses
    /\ dl_total_size = 0
    /\ dl_size_written = 0
    /\ dl_chunks_read = 0
    /\ dl_file_size = -1
    /\ dl_progress = <<>>
    /\ dl_raised = None
    /\ dl_calls = <<>>
    /\ dl_dir = {}

NextDownload ==
    \/ DownloadGet
    \/ DownloadChunk
    \/ DownloadReturn

SpecDownload == InitDownload /\ [][NextDownload]_vars

\* ------------------------------------------------------------------ download_fw, the destination files

\* The arguments download_fw derives its file name from.
DownloadArgs ==
    [printer_model : {"HL-1", "HL-2"}, fw_part : Parts, latest_version : {"1.23", "12.3", "2.0"}]

\* Lines 197-201 of one more download_fw call into the same dst_dir:
\* out_file is derived from the arguments and opened with mode "wb", which
\* creates it or replaces what a file of that name held.
DownloadInto(call) ==
    /\ Len(dl_calls) < MaxDownloads
    /\ LET out_file == OutFile(".", call.printer_model, call.fw_part, call.latest_version)
       IN dl_dir' = {f \in dl_dir : f.name # out_file.name}
                       \cup {[name |-> out_file.name, written_by |-> call]}
    /\ dl_calls' = Append(dl_calls, call)
    /\ UNCHANGED <<dl_pc, dl_resp, dl_total_size, dl_size_written, dl_chunks_read,
                   dl_file_size, dl_progress, dl_raised,
                   walk_vars, printer_info, run_vars, oh_vars, cli_vars,
                   arg_vars>>

\* dst_dir is empty and no download_fw call has been made.
InitFiles ==
    /\ CliNotStarted
    /\ ArgNotStarted
    /\ walk_pc = "idle"
    /\ consumed = <<>>
    /\ printer_info = SNMPPrinterInfo(None, None, None, <<>>)
    /\ fw_info = FWInfo(None, None)
    /\ RunNotStarted
    /\ DownloadNotStarted
    /\ OhNotStarted

NextFiles == \E call \in DownloadArgs : DownloadInto(call)

SpecFiles == InitFiles /\ [][NextFiles]_vars

\* ------------------------------------------------------------------ oh-brother.py, the loop over firmInfo

\* The categories an entry of firmInfo may have.
Categories == {"MAIN", "FIRM", "IFAX"}

\* firmInfo: a list of {cat, version} entries.
FirmInfos ==
    UNION {[1..n -> {[cat |-> c, version |-> "1.0"] : c \in Categories}] : n \in 0..MaxParts}

\* An entry of oh_events: what was printed, asked or done, for which entry.
Event(entry, what) == [entry |-> entry, what |-> what]

\* Element.find(path): the text of the first matching element, None if none.
find(response, tag) == IF response[tag] = <<>> THEN None ELSE response[tag][1]

\* firmwareURL.split('/')[-1]
Basename(url) == IF url = FwUrl THEN "fw.bin" ELSE url

\* Lines 171-198: the request update_firmware builds for cat and version.
update_firmware_request(env, cat, version) ==
    [reqInfo EXCEPT
        !.FIRMCATEGORY = IF cat # "FIRM" THEN cat ELSE "MAIN",
        !.SERIAL = env.serial,
        !.NAME = env.model,
        !.SPEC = env.spec,
        !.FIRMINFO = <<[ID |-> IF cat # "IFAX" THEN cat ELSE "MAIN", VERSION |-> version]>>]

\* An uncaught exception ends the script.
OhCrash(type, events) ==
    /\ oh_pc' = "crashed"
    /\ oh_raised' = type
    /\ oh_events' = events

\* Lines 294-296 and 168-211: the loop takes the next entry; update_firmware
\* builds its request and posts it.
OhNextEntry ==
    /\ oh_pc = "loop"
    /\ oh_entry < Len(oh_env.firmInfo)
    /\ oh_entry' = oh_entry + 1
    /\ requestInfo' = update_firmware_request(oh_env, oh_env.firmInfo[oh_entry + 1].cat,
                                              oh_env.firmInfo[oh_entry + 1].version)
    /\ oh_events' = oh_events \o <<Event(oh_entry + 1, "Updating"),
                                   Event(oh_entry + 1, "Looking up printer firmware info")>>
    /\ oh_pc' = "lookup"
    /\ UNCHANGED <<oh_env, oh_response, filename, oh_raised,
                   walk_vars, printer_info, run_vars, dl_vars, cli_vars,
                   arg_vars>>

\* Lines 298-299: the loop is over, print('Success').
OhSuccess ==
    /\ oh_pc = "loop"
    /\ oh_entry = Len(oh_env.firmInfo)
    /\ oh_pc' = "success"
    /\ oh_events' = Append(oh_events, Event(oh_entry, "Success"))
    /\ UNCHANGED <<oh_env, oh_entry, requestInfo, oh_response, filename, oh_raised,
                   walk_vars, printer_info, run_vars, dl_vars, cli_vars,
                   arg_vars>>

\* Lines 211-240: the vendor server answers response; update_firmware reads
\* VERSIONCHECK and PATH and opens the file the firmware goes to.
OhLookup(response) ==
    /\ oh_pc = "lookup"
    /\ oh_response' = response
    /\ IF raise_for_status(response)
       THEN \* urlopen raises HTTPError
            /\ OhCrash("HTTPError", oh_events)
            /\ UNCHANGED filename
       ELSE IF find(response, "VERSIONCHECK") = "1"
       THEN /\ oh_events' = Append(oh_events, Event(oh_entry, "Firmware already up to date"))
            /\ oh_pc' = "loop"
            /\ UNCHANGED <<filename, oh_raised>>
       ELSE IF find(response, "PATH") = None
       THEN /\ oh_events' =
                  Append(oh_events, Event(oh_entry, "No firmware update info path found"))
            /\ oh_pc' = "loop"
            /\ UNCHANGED <<filename, oh_raised>>
       ELSE /\ filename' = Basename(find(response, "PATH"))
            /\ oh_events' = Append(oh_events, Event(oh_entry, "Downloading firmware file"))
            /\ oh_pc' = "download"
            /\ UNCHANGED oh_raised
    /\ UNCHANGED <<oh_env, oh_entry, requestInfo, walk_vars, printer_info, run_vars, dl_vars, cli_vars,
                   arg_vars>>

UploadWarning_none(entry) == <<>>

\* Lines 259-265: the warning printed before the upload, and the prompt
\* that asks the operator to confirm it.
UploadWarning(entry) ==
    <<Event(entry, "About to upload the firmware to printer."),
      Event(entry, "Press Ctrl-C to prevent upgrade or Enter to continue...")>>

\* Lines 245-265: the download server answers with status_code; the blocks
\* are written to the file, and unless args.test is set the warning is
\* printed and the confirmation asked for.
OhDownload(status_code) ==
    /\ oh_pc = "download"
    /\ IF status_code >= 400
       THEN OhCrash("HTTPError", oh_events)
       ELSE IF oh_env.args.test
       THEN /\ oh_events' = Append(oh_events, Event(oh_entry, "file written"))
            /\ oh_pc' = "loop"
            /\ UNCHANGED oh_raised
       ELSE /\ oh_events' = oh_events \o <<Event(oh_entry, "file written")>>
                                       \o UploadWarning(oh_entry)
            /\ oh_pc' = "confirm"
            /\ UNCHANGED oh_raised
    /\ UNCHANGED <<oh_env, oh_entry, requestInfo, oh_response, filename,
                   walk_vars, printer_info, run_vars, dl_vars, cli_vars,
                   arg_vars>>

\* OhConfirm that goes on with the loop once the upload is announced.
OhConfirm_upload_in_background(key) ==
    /\ oh_pc = "confirm"
    /\ IF key = "Ctrl-C"
       THEN OhCrash("KeyboardInterrupt", oh_events)
       ELSE /\ oh_events' = Append(oh_events, Event(oh_entry, "Now uploading firmware to printer"))
            /\ oh_pc' = "loop"
            /\ UNCHANGED oh_raised
    /\ UNCHANGED <<oh_env, oh_entry, requestInfo, oh_response, filename,
                   walk_vars, printer_info, run_vars, dl_vars, cli_vars,
                   arg_vars>>

\* Lines 265-269: the operator answers the confirmation with Enter or Ctrl-C.
OhConfirm(key) ==
    /\ oh_pc = "confirm"
    /\ IF key = "Ctrl-C"
       THEN OhCrash("KeyboardInterrupt", oh_events)
       ELSE /\ oh_events' = Append(oh_events, Event(oh_entry, "Now uploading firmware to printer"))
            /\ oh_pc' = "upload"
            /\ UNCHANGED oh_raised
    /\ UNCHANGED <<oh_env, oh_entry, requestInfo, oh_response, filename,
                   walk_vars, printer_info, run_vars, dl_vars, cli_vars,
                   arg_vars>>

\* What the connection to the printer may do: carry the file, be refused,
\* time out, or be reset while the file is being sent.
UploadOutcomes == {"ok", "ConnectionRefusedError", "TimeoutError", "ConnectionResetError"}

\* The exceptions the try statement of each transport catches: OSError (of
\* which all three are subclasses) at line 278, ConnectionRefusedError at
\* line 286.
Caught(password, outcome) ==
    IF password = None THEN outcome # "ok" ELSE outcome = "ConnectionRefusedError"

\* Lines 271-292: the upload over port 9100 (no password) or FTP, and the
\* prompt that follows it.
OhUpload(outcome) ==
    /\ oh_pc = "upload"
    /\ LET transport == IF oh_env.args.password = None THEN "sendfile" ELSE "storbinary"
           begun == IF outcome \in {"ok", "ConnectionResetError"}
                    THEN <<Event(oh_entry, transport)>> ELSE <<>>
           aborted == IF oh_env.args.password = None
                      THEN "Firmware update aborted due to error while uploading"
                      ELSE "Firmware update aborted due to connection refused"
       IN IF outcome # "ok" /\ ~Caught(oh_env.args.password, outcome)
          THEN OhCrash(outcome, oh_events \o begun)
          ELSE /\ oh_events' = oh_events \o begun
                     \o (IF outcome = "ok" THEN <<>> ELSE <<Event(oh_entry, aborted)>>)
                     \o <<Event(oh_entry, "done"), Event(oh_entry, "Press Enter to continue...")>>
               /\ oh_pc' = "wait"
               /\ UNCHANGED oh_raised
    /\ UNCHANGED <<oh_env, oh_entry, requestInfo, oh_response, filename,
                   walk_vars, printer_info, run_vars, dl_vars, cli_vars,
                   arg_vars>>

\* Line 292: the operator answers the last prompt with Enter or Ctrl-C.
OhWait(key) ==
    /\ oh_pc = "wait"
    /\ IF key = "Ctrl-C"
       THEN OhCrash("KeyboardInterrupt", oh_events)
       ELSE /\ oh_pc' = "loop"
            /\ UNCHANGED <<oh_raised, oh_events>>
    /\ UNCHANGED <<oh_env, oh_entry, requestInfo, oh_response, filename,
                   walk_vars, printer_info, run_vars, dl_vars, cli_vars,
                   arg_vars>>

\* oh-brother.py has the SNMP data and enters the loop over firmInfo.
InitOh ==
    /\ CliNotStarted
    /\ ArgNotStarted
    /\ walk_pc = "idle"
    /\ consumed = <<>>
    /\ printer_info = SNMPPrinterInfo(None, None, None, <<>>)
    /\ fw_info = FWInfo(None, None)
    /\ RunNotStarted
    /\ DownloadNotStarted
    /\ oh_pc = "loop"
    /\ oh_env \in {OhEnv(test, password, firmInfo) :
                      test \in BOOLEAN, password \in {None, "secret"}, firmInfo \in FirmInfos}
    /\ oh_entry = 0
    /\ requestInfo = reqInfo
    /\ oh_response = Response(200, <<>>, <<>>, <<>>, <<>>)
    /\ filename = None
    /\ oh_events = <<>>
    /\ oh_raised = None

NextOh ==
    \/ OhNextEntry
    \/ OhSuccess
    \/ \E response \in Responses : OhLookup(response)
    \/ \E status_code \in {200, 404} : OhDownload(status_code)
    \/ \E key \in {"Enter", "Ctrl-C"} : OhConfirm(key)
    \/ \E outcome \in UploadOutcomes : OhUpload(outcome)
    \/ \E key \in {"Enter", "Ctrl-C"} : OhWait(key)

\* Either program is run: brother_printer_fwupd or oh-brother.py.
InitUpdaters == InitRun \/ InitOh

NextUpdaters == NextRun \/ NextOh

SpecUpdaters == InitUpdaters /\ [][NextUpdaters]_vars

\* ------------------------------------------------------------------ PrinterDiscoverer.run_cli

\* Most lines the operator enters at the selection prompt.
MaxInputs == 2

\* Most zeroconf callbacks delivered while the selection runs.
MaxEvents == 2

\* The names of the services zeroconf reports.
ServiceNames == {"A", "B"}

AddressOf(name) == IF name = "A" THEN "10.0.0.1" ELSE "10.0.0.2"

\* MDNSPrinterInfo (models.py lines 59-68); product, note and uuid are only shown.
MDNSPrinterInfo(ip_addr, name, port) == [ip_addr |-> ip_addr, name |-> name, port |-> port]

\* What zc.get_service_info(type_, name) gives: None (<<>>), or the
\* addresses and the port of the service.
ServiceInfos(name) ==
    {<<>>, <<[addresses |-> <<AddressOf(name)>>, port |-> GivenPort]>>}

\* Lines 40-77: one MDNSPrinterInfo per address of the service.
zc_info_to_mdns_printer_infos(service_info, name) ==
    [i \in 1..Len(service_info.addresses) |->
        MDNSPrinterInfo(service_info.addresses[i], name, service_info.port)]

\* Lines 79-84: every printer of that name is removed from the list.
remove_printer_infos_by_name(list, name) == SelectSeq(list, LAMBDA p : p.name # name)

\* Lines 113-171: the screen is cleared and drawn again: the
\* "Invalid answer." line if _invalid_answer, and the prompt with the range
\* of numbers of the list.
update_screen(list, invalid) ==
    [shown |-> TRUE, invalid |-> invalid,
     range |-> IF list = <<>> THEN NoPrintersPrompt ELSE [first |-> 0, last |-> Len(list) - 1]]

\* The browser of _run() delivers callbacks until _stop() closes zeroconf.
Discovering == cli_pc \in {"input", "finally"} /\ zc_events < MaxEvents

\* Lines 103-105 and 86-101: add_service.  Without service info it returns
\* before the screen is drawn.
add_service(name, service_info) ==
    /\ Discovering
    /\ zc_events' = zc_events + 1
    /\ IF service_info = <<>>
       THEN UNCHANGED <<printers, screen>>
       ELSE /\ printers' = printers \o zc_info_to_mdns_printer_infos(service_info[1], name)
            /\ screen' = update_screen(printers', invalid_answer)
    /\ UNCHANGED <<cli_pc, choice, invalid_answer, cli_inputs, cli_result,
                   walk_vars, printer_info, run_vars, dl_vars, oh_vars, arg_vars>>

\* Lines 33-38: remove_service.
remove_service(name) ==
    /\ Discovering
    /\ zc_events' = zc_events + 1
    /\ printers' = remove_printer_infos_by_name(printers, name)
    /\ screen' = update_screen(printers', invalid_answer)
    /\ UNCHANGED <<cli_pc, choice, invalid_answer, cli_inputs, cli_result,
                   walk_vars, printer_info, run_vars, dl_vars, oh_vars, arg_vars>>

\* Lines 107-111: update_service removes the printers of the name and adds
\* them again from the service info.
update_service(name, service_info) ==
    /\ Discovering
    /\ zc_events' = zc_events + 1
    /\ LET removed == remove_printer_infos_by_name(printers, name)
       IN IF service_info = <<>>
          THEN /\ printers' = removed
               /\ UNCHANGED screen
          ELSE /\ printers' = removed \o zc_info_to_mdns_printer_infos(service_info[1], name)
               /\ screen' = update_screen(printers', invalid_answer)
    /\ UNCHANGED <<cli_pc, choice, invalid_answer, cli_inputs, cli_result,
                   walk_vars, printer_info, run_vars, dl_vars, oh_vars, arg_vars>>

\* The lines the operator types.
Lines == {<<>>, <<" ">>, <<"0">>, <<"1">>, <<"7">>, <<"-", "1">>, <<"x">>}

IsDigits(s) == s # <<>> /\ \A i \in DOMAIN s : s[i] \in CharsOf(digits)

RECURSIVE DigitsValue(_)
DigitsValue(s) ==
    IF s = <<>> THEN 0
    ELSE 10 * DigitsValue(SubSeq(s, 1, Len(s) - 1))
            + (CHOOSE d \in 0..9 : digits[d + 1] = s[Len(s)])

\* int(inpt), lines 186-189: <<n>> for a decimal number with an optional
\* sign, <<>> (choice = None) when int raises ValueError.
int(inpt) ==
    IF IsDigits(inpt) THEN <<DigitsValue(inpt)>>
    ELSE IF inpt # <<>> /\ Head(inpt) = "-" /\ IsDigits(Tail(inpt))
    THEN <<0 - DigitsValue(Tail(inpt))>>
    ELSE IF inpt # <<>> /\ Head(inpt) = "+" /\ IsDigits(Tail(inpt))
    THEN <<DigitsValue(Tail(inpt))>>
    ELSE <<>>

\* list[i] of Python: counted from the end for a negative i, IndexError
\* outside -len..len-1.
ListIndex(list, i) ==
    IF i >= 0 /\ i < Len(list) THEN [item |-> <<list[i + 1]>>, raised |-> None]
    ELSE IF i < 0 /\ i >= 0 - Len(list)
    THEN [item |-> <<list[Len(list) + i + 1]>>, raised |-> None]
    ELSE [item |-> <<>>, raised |-> "IndexError"]

\* choice in range(len(self._printers)), line 191.
InRange(c, list) == c # <<>> /\ c[1] >= 0 /\ c[1] < Len(list)

\* Lines 181-195: one pass of the input loop with the line the operator gave.
CliInput(line) ==
    /\ cli_pc = "input"
    /\ Len(cli_inputs) < MaxInputs
    /\ LET inpt == strip(line)
           parsed == int(inpt)
       IN /\ cli_inputs' = Append(cli_inputs,
                                  [line |-> line, in_range |-> InRange(parsed, printers)])
          /\ IF inpt = <<>>
             THEN \* if not inpt: break
                  /\ cli_pc' = "finally"
                  /\ UNCHANGED <<choice, invalid_answer, screen>>
             ELSE /\ choice' = parsed
                  /\ IF InRange(parsed, printers)
                     THEN /\ cli_pc' = "finally"
                          /\ UNCHANGED <<invalid_answer, screen>>
                     ELSE /\ invalid_answer' = TRUE
                          /\ screen' = update_screen(printers, TRUE)
                          /\ UNCHANGED cli_pc
    /\ UNCHANGED <<zc_events, printers, cli_result,
                   walk_vars, printer_info, run_vars, dl_vars, oh_vars, arg_vars>>

\* Lines 196-197: Ctrl-C or the end of input at the prompt.
CliInterrupt ==
    /\ cli_pc = "input"
    /\ cli_pc' = "finally"
    /\ UNCHANGED <<zc_events, printers, choice, invalid_answer, screen, cli_inputs,
                   cli_result, walk_vars, printer_info, run_vars, dl_vars, oh_vars,
                   arg_vars>>

\* Lines 198-200: _stop() closes zeroconf, the screen is cleared.
CliStop ==
    /\ cli_pc = "finally"
    /\ cli_pc' = "stopped"
    /\ screen' = ClearedScreen
    /\ UNCHANGED <<zc_events, printers, choice, invalid_answer, cli_inputs, cli_result,
                   walk_vars, printer_info, run_vars, dl_vars, oh_vars, arg_vars>>

\* Lines 202-209: None without a choice, else self._printers[choice]; the
\* except clause names KeyError, which a list does not raise.
CliReturn ==
    /\ cli_pc = "stopped"
    /\ LET got == IF choice = <<>> THEN [item |-> <<>>, raised |-> None]
                  ELSE ListIndex(printers, choice[1])
       IN /\ cli_result' = [returned |-> got.item, raised |-> got.raised]
          /\ cli_pc' = IF got.raised = None THEN "returned" ELSE "raised"
    /\ UNCHANGED <<zc_events, printers, choice, invalid_answer, screen, cli_inputs,
                   walk_vars, printer_info, run_vars, dl_vars, oh_vars, arg_vars>>

\* Lines 175-178: run_cli has started the browser and drawn the screen.
InitCli ==
    /\ walk_pc = "idle"
    /\ consumed = <<>>
    /\ printer_info = SNMPPrinterInfo(None, None, None, <<>>)
    /\ fw_info = FWInfo(None, None)
    /\ RunNotStarted
    /\ DownloadNotStarted
    /\ OhNotStarted
    /\ ArgNotStarted
    /\ cli_pc = "input"
    /\ zc_events = 0
    /\ printers = <<>>
    /\ choice = <<>>
    /\ invalid_answer = FALSE
    /\ screen = update_screen(<<>>, FALSE)
    /\ cli_inputs = <<>>
    /\ cli_result = [returned |-> <<>>, raised |-> None]

NextCli ==
    \/ \E line \in Lines : CliInput(line)
    \/ CliInterrupt
    \/ CliStop
    \/ CliReturn
    \/ \E name \in ServiceNames : \E service_info \in ServiceInfos(name) :
          add_service(name, service_info)
    \/ \E name \in ServiceNames : remove_service(name)
    \/ \E name \in ServiceNames : \E service_info \in ServiceInfos(name) :
          update_service(name, service_info)

SpecCli == InitCli /\ [][NextCli]_vars

\* ------------------------------------------------------------------ FWInfo.from_str

\* Most characters of a firmware id, and of a firmware version.
MaxField == 2

\* The characters the texts are made of: a letter, a digit and the separator.
TextChars == {"M", "1", "@"}

\* The strings of at most n characters.
Strs(n) == UNION {[1..k -> TextChars] : k \in 0..n}

\* FWInfo.__str__ (models.py lines 31-32) for a part whose fields are given
\* by their characters.
FWInfo_to_text(fw) == fw.firmid \o <<"@">> \o fw.firmver

\* The positions of sep in value.
Positions(value, sep) == {i \in DOMAIN value : value[i] = sep}

Max(S) == CHOOSE x \in S : \A y \in S : y <= x

Min(S) == CHOOSE x \in S : \A y \in S : x <= y

\* value.rsplit(sep, 1)
rsplit_once(value, sep) ==
    IF Positions(value, sep) = {} THEN <<value>>
    ELSE LET i == Max(Positions(value, sep))
         IN <<SubSeq(value, 1, i - 1), SubSeq(value, i + 1, Len(value))>>

\* value.split(sep, 1): value cut at the first sep, or value alone.
split_once(value, sep) ==
    IF Positions(value, sep) = {} THEN <<value>>
    ELSE LET i == Min(Positions(value, sep))
         IN <<SubSeq(value, 1, i - 1), SubSeq(value, i + 1, Len(value))>>

from_str_last_separator(value) ==
    LET fields == rsplit_once(value, "@")
    IN IF Len(fields) # 2
       THEN [part |-> <<>>, raised |-> "ArgumentTypeError"]
       ELSE [part |-> <<FWInfo(fields[1], fields[2])>>, raised |-> None]

\* FWInfo.from_str (models.py lines 34-46): the unpacking of one field
\* raises ValueError, which is raised again as ArgumentTypeError.
from_str(value) ==
    LET fields == split_once(value, "@")
    IN IF Len(fields) # 2
       THEN [part |-> <<>>, raised |-> "ArgumentTypeError"]
       ELSE [part |-> <<FWInfo(fields[1], fields[2])>>, raised |-> None]

\* __main__.py lines 213-217: str(fw_version) is written as the value of
\* --fw-versions.
ArgStr ==
    /\ arg_pc = "part"
    /\ fw_text' = <<FWInfo_to_text(fw_arg[1])>>
    /\ arg_pc' = "text"
    /\ UNCHANGED <<fw_arg, fw_parsed, walk_vars, printer_info, run_vars, dl_vars, oh_vars,
                   cli_vars>>

\* __main__.py lines 70-77: argparse applies FWInfo.from_str to the text.
ArgFromStr ==
    /\ arg_pc = "text"
    /\ fw_parsed' = from_str(fw_text[1])
    /\ arg_pc' = "parsed"
    /\ UNCHANGED <<fw_arg, fw_text, walk_vars, printer_info, run_vars, dl_vars, oh_vars,
                   cli_vars>>

\* Either a part is to be written and read back, or a text is given.
InitArgs ==
    /\ walk_pc = "idle"
    /\ consumed = <<>>
    /\ printer_info = SNMPPrinterInfo(None, None, None, <<>>)
    /\ fw_info = FWInfo(None, None)
    /\ RunNotStarted
    /\ DownloadNotStarted
    /\ OhNotStarted
    /\ CliNotStarted
    /\ fw_parsed = [part |-> <<>>, raised |-> None]
    /\ \/ /\ arg_pc = "part"
          /\ fw_arg \in {<<FWInfo(firmid, firmver)>> :
                            firmid \in Strs(MaxField), firmver \in Strs(MaxField)}
          /\ fw_text = <<>>
       \/ /\ arg_pc = "text"
          /\ fw_arg = <<>>
          /\ fw_text \in {<<value>> : value \in Strs(MaxField)}

NextArgs == ArgStr \/ ArgFromStr

SpecArgs == InitArgs /\ [][NextArgs]_vars

\* ------------------------------------------------------------------ the walk's claims

\* The answer is NAME = "VALUE" with NAME one of the five known names.
WellFormedKnown(a) == a.quoted /\ a.name \in KnownNames

IsFirm(a, name) == a.quoted /\ a.name = name /\ a.value # ""

\* The id left pending by the first n answers of s under the pairing rule:
\* FIRMID starts or restarts the accumulator, FIRMVER with a pending id
\* completes the pair and resets it.
RECURSIVE PendingAfter(_, _)
PendingAfter(s, n) ==
    IF n = 0 THEN None
    ELSE IF IsFirm(s[n], "FIRMID") THEN s[n].value
    ELSE IF IsFirm(s[n], "FIRMVER") THEN None
    ELSE PendingAfter(s, n - 1)

\* The complete FIRMID-then-FIRMVER pairs of the first n answers, in arrival order.
RECURSIVE ObservedPairs(_, _)
ObservedPairs(s, n) ==
    IF n = 0 THEN <<>>
    ELSE IF IsFirm(s[n], "FIRMVER") /\ PendingAfter(s, n - 1) # None
         THEN Append(ObservedPairs(s, n - 1), FWInfo(PendingAfter(s, n - 1), s[n].value))
         ELSE ObservedPairs(s, n - 1)

\* Some FIRMVER answer arrived while no FIRMID was pending.
OrphanFirmver(s) ==
    \E i \in 1..Len(s) : IsFirm(s[i], "FIRMVER") /\ PendingAfter(s, i - 1) = None

EndedWithEmptyAnswer == Len(consumed) > 0 /\ consumed[Len(consumed)] = EmptyData

\* C1: for a stream of well-formed answers that ends with an empty answer,
\* the returned identity's fw_versions is exactly the list of complete
\* FIRMID-then-FIRMVER pairs observed, in arrival order.
C1_OnePartPerObservedPair ==
    ( /\ walk_pc = "returned"
      /\ EndedWithEmptyAnswer
      /\ \A i \in 1..(Len(consumed) - 1) : WellFormedKnown(consumed[i]) )
    => printer_info.fw_versions = ObservedPairs(consumed, Len(consumed))

\* C2: a FIRMVER answer received while no FIRMID is pending makes the walk
\* fail: no identity is returned for a stream that holds such an answer.
C2_OrphanFirmverFails ==
    OrphanFirmver(consumed) => walk_pc # "returned"

HalfFilled(fw) == (fw.firmid = None) # (fw.firmver = None)

\* C3: when the stream ends (empty answer or exhausted source) while the
\* accumulator holds exactly one of id and version, the walk exits with the
\* incomplete-part error; the part is neither appended nor dropped.
C3_HalfFilledAtEndAborts ==
    [][ ( /\ walk_pc = "walking"
          /\ walk_pc' \in {"returned", "exit_incomplete"}
          /\ HalfFilled(fw_info) )
        => ( /\ walk_pc' = "exit_incomplete"
             /\ printer_info' = printer_info
             /\ fw_info' = fw_info ) ]_vars

C3_Witness ==
    /\ walk_pc = "exit_incomplete"
    /\ fw_info.firmid = "MAIN" /\ fw_info.firmver = None
    /\ EndedWithEmptyAnswer
    /\ Len(printer_info.fw_versions) = 1

\* C4: a non-empty answer that is not NAME = "VALUE" with one of the five
\* known names aborts the walk at that answer: it is the last answer
\* consumed and the walk has exited with the no-match error.
C4_MalformedAnswerAborts ==
    \A i \in 1..Len(consumed) :
        (consumed[i] # EmptyData /\ ~WellFormedKnown(consumed[i]))
        => (i = Len(consumed) /\ walk_pc = "exit_nomatch")

\* C5: every element of fw_versions has both firmid and firmver set and
\* non-empty, in every state of the walk and in the returned identity.
C5_PartsComplete ==
    \A i \in 1..Len(printer_info.fw_versions) :
        LET fw == printer_info.fw_versions[i]
        IN /\ fw.firmid # None /\ fw.firmid # ""
           /\ fw.firmver # None /\ fw.firmver # ""

C5_Witness ==
    /\ walk_pc = "returned"
    /\ printer_info.fw_versions = <<FWInfo("MAIN", "1.0"), FWInfo("SUB", "2.0")>>

\* The value of the last answer named `name` among the first n of s that
\* SNMP_RE matches, None when there is none.
RECURSIVE LastValue(_, _, _)
LastValue(s, n, name) ==
    IF n = 0 THEN None
    ELSE IF SNMP_RE_match(s[n]).name = name THEN SNMP_RE_match(s[n]).value
    ELSE LastValue(s, n - 1, name)

\* The step consumes the answer d.
Consumes(d) == consumed' = Append(consumed, d)

\* C27: model, serial and spec of the identity equal the value of the last
\* MODEL, SERIAL and SPEC answer received (None when none was); such an
\* answer leaves fw_versions and the accumulator as they were.
C27_IdentityLastWriteWins ==
    [][ /\ printer_info'.model = LastValue(consumed', Len(consumed'), "MODEL")
        /\ printer_info'.serial = LastValue(consumed', Len(consumed'), "SERIAL")
        /\ printer_info'.spec = LastValue(consumed', Len(consumed'), "SPEC")
        /\ \A d \in Answers :
              (Consumes(d) /\ d.quoted /\ d.name \in IdentityNames)
              => /\ printer_info'.fw_versions = printer_info.fw_versions
                 /\ fw_info' = fw_info ]_vars

C27_Witness ==
    /\ walk_pc = "returned"
    /\ consumed = <<RawAnswer("SERIAL", TRUE, "S1"), RawAnswer("FIRMID", TRUE, "MAIN"),
                    RawAnswer("SERIAL", TRUE, "S2"), RawAnswer("FIRMVER", TRUE, "1.0"),
                    EmptyData>>
    /\ printer_info = SNMPPrinterInfo(None, "S2", None, <<FWInfo("MAIN", "1.0")>>)

\* C28: the walk stops at the first empty answer.  The empty answer leaves
\* the identity as built so far and, with an empty accumulator, the walk
\* returns; an empty answer is the last answer consumed, and once the walk
\* has stopped nothing is consumed and the identity does not change.
C28_StopsAtFirstEmptyAnswer ==
    [][ /\ \A i \in 1..(Len(consumed') - 1) : consumed'[i] # EmptyData
        /\ Consumes(EmptyData)
              => /\ printer_info' = printer_info
                 /\ walk_pc' # "walking"
                 /\ is_empty(fw_info) => walk_pc' = "returned"
        /\ walk_pc # "walking" => UNCHANGED <<consumed, printer_info, fw_info>> ]_vars

C28_Witness ==
    /\ walk_pc = "returned"
    /\ consumed = <<RawAnswer("MODEL", TRUE, "HL-1"), RawAnswer("FIRMID", TRUE, "MAIN"),
                    RawAnswer("FIRMVER", TRUE, "1.0"), EmptyData>>
    /\ printer_info = SNMPPrinterInfo("HL-1", None, None, <<FWInfo("MAIN", "1.0")>>)

\* The number of answers of s that are FIRMID or FIRMVER (per name) with a value.
FirmCount(s, name) == Cardinality({i \in 1..Len(s) : IsFirm(s[i], name)})

IsPlain(req) == req.SERIALTAG = "SERIALNO" /\ req.DRIVER = ""

IsQuirk(req) == req.SERIALTAG = "SELIALNO" /\ req.DRIVER = "EWS"

Once(resp, tag) == Len(resp[tag]) = 1

\* The outcome a response with a success status parses to.
IsUpToDate(resp) == resp.status_code = 200 /\ resp.VERSIONCHECK = <<"1">>

IsUnknown(resp) == resp.status_code = 200 /\ resp.VERSIONCHECK = <<"2">>

IsUpdateAvailable(resp) ==
    /\ resp.status_code = 200
    /\ resp.VERSIONCHECK = <<"0">>
    /\ Once(resp, "LATESTVERSION") /\ Once(resp, "FIRMID") /\ Once(resp, "PATH")

IsMalformed(resp) ==
    /\ resp.status_code = 200
    /\ ~IsUpToDate(resp) /\ ~IsUnknown(resp) /\ ~IsUpdateAvailable(resp)

\* C6: one call of get_download_url sends at most two requests, and the
\* first one is the plain request (SERIALNO tag, empty DRIVER), never the
\* quirk request.
C6_AtMostTwoPlainFirst ==
    /\ Len(sent) <= 2
    /\ Len(sent) >= 1 => (IsPlain(sent[1]) /\ ~IsQuirk(sent[1]))

C6_Witness ==
    /\ Len(sent) = 2
    /\ IsPlain(sent[1])
    /\ IsQuirk(sent[2])
    /\ attempt = Len(ModificationCallbacks)

\* C7: when the first response parses to UpToDate, UpdateAvailable or
\* Unknown, the call returns that outcome after this one request; a second
\* (quirk) request is sent only after a first response that was Malformed.
C7_GoodFirstOutcomeReturnedAtOnce ==
    /\ (Len(responses) >= 1 /\ responses[1].status_code = 200 /\ ~IsMalformed(responses[1]))
       => ( /\ Len(sent) = 1
            /\ neg_pc = "returned"
            /\ result = IF IsUpdateAvailable(responses[1])
                        THEN <<responses[1].LATESTVERSION[1], responses[1].PATH[1]>>
                        ELSE <<None, None>> )
    /\ Len(sent) = 2 => IsMalformed(responses[1])

C7_Witness ==
    /\ Len(responses) = 1
    /\ IsUnknown(responses[1])
    /\ neg_pc = "returned"
    /\ Len(sent) = 1
    /\ part_idx = 2

\* C8: after a Malformed first response, a second response with
\* VERSIONCHECK=1 makes the call return the up-to-date outcome, with exactly
\* two requests sent and no exception raised.
C8_RetryThenUpToDate ==
    ( /\ Len(responses) = 2
      /\ IsMalformed(responses[1])
      /\ IsUpToDate(responses[2]) )
    => ( /\ neg_pc = "returned"
         /\ result = <<None, None>>
         /\ Len(sent) = 2 /\ IsQuirk(sent[2])
         /\ raised = NoException
         /\ run_pc # "aborted" )

C8_Witness ==
    /\ Len(responses) = 2
    /\ IsMalformed(responses[1])
    /\ IsUpToDate(responses[2])
    /\ neg_pc = "returned"
    /\ Len(errors) = 1

\* C9: when both attempts' responses are Malformed, the call raises one
\* ExceptionGroup that holds exactly the two attempts' errors, in attempt
\* order, and the reporter logs each of them.
C9_BothMalformedAggregated ==
    ( /\ Len(responses) = 2
      /\ IsMalformed(responses[1])
      /\ IsMalformed(responses[2]) )
    => ( /\ neg_pc = "raised_group"
         /\ raised.type = "ExceptionGroup"
         /\ Len(raised.exceptions) = 2
         /\ \A i \in 1..2 : /\ raised.exceptions[i].type = "ValueError"
                            /\ raised.exceptions[i].response = responses[i]
         /\ Len(logged) >= 2
         /\ logged[Len(logged) - 1].err = <<raised.exceptions[1]>>
         /\ logged[Len(logged)].err = <<raised.exceptions[2]>> )

C9_Witness ==
    /\ neg_pc = "raised_group"
    /\ Len(responses) = 2
    /\ responses[1] = Response(200, <<>>, <<>>, <<>>, <<>>)
    /\ responses[2] = Response(200, <<"3">>, <<"1.23">>, <<"MAIN">>, <<FwUrl>>)
    /\ Len(raised.exceptions) = 2

\* C10: a negotiation failure on one part (both attempts Malformed) does not
\* block the parts after it: a run that ended with such a failure has
\* negotiated every part of fw_versions.
C10_FailureDoesNotBlockNext ==
    (run_pc \in {"done", "aborted"} /\ raised.type = "ExceptionGroup")
    => part_idx = Len(printer_info.fw_versions)

\* ------------------------------------------------------------------ the upload's claims

ConnectionFailures == {"ConnectionRefusedError", "TimeoutError", "ConnectionResetError"}

\* C11: a connection failure of the upload of one firmware part never aborts
\* the run, on either transport: in brother_printer_fwupd a run that ended
\* in its upload had connected, and oh-brother.py is never ended by a
\* connection failure.
C11_UploadConnectionFailureSkipsPart ==
    /\ ( /\ run_pc = "aborted"
         /\ uploaded # <<>>
         /\ uploaded[Len(uploaded)].part = part_idx )
       => uploaded[Len(uploaded)].connected
    /\ oh_pc = "crashed" => oh_raised \notin ConnectionFailures

\* C12: every upload_fw call is handed the path of the file that the
\* download_fw call of the same part wrote, and a connected upload sends
\* that file.
C12_UploadsTheDownloadedFile ==
    \A i \in 1..Len(uploaded) :
        /\ uploaded[i].fw_file_path # None
        /\ \E j \in 1..Len(downloaded) :
              /\ downloaded[j].part = uploaded[i].part
              /\ downloaded[j].opened
              /\ uploaded[i].fw_file_path = downloaded[j].out_file
        /\ uploaded[i].connected => uploaded[i].file_sent

\* ------------------------------------------------------------------ parse_response's claims

\* The response that parse_response was last given, and the firmid it was
\* given with it.
LastResponse == responses[Len(responses)]

RequestedFirmid == printer_info.fw_versions[part_idx].firmid

\* C13 as stated: a response with VERSIONCHECK=0 and LATESTVERSION and PATH
\* once each makes parse_response return exactly those two texts.
C13_ReturnsVersionAndPath ==
    ( /\ responses # <<>>
      /\ LastResponse.status_code = 200
      /\ LastResponse.VERSIONCHECK = <<"0">>
      /\ Once(LastResponse, "LATESTVERSION")
      /\ Once(LastResponse, "PATH") )
    => ( /\ neg_pc = "returned"
         /\ result = <<LastResponse.LATESTVERSION[1], LastResponse.PATH[1]>> )

\* C13, amended: a response with VERSIONCHECK=0 and LATESTVERSION, FIRMID
\* and PATH once each makes parse_response return exactly the LATESTVERSION
\* and PATH texts.
C13_ReturnsVersionAndPathGivenFirmid ==
    ( /\ responses # <<>>
      /\ IsUpdateAvailable(LastResponse) )
    => ( /\ neg_pc = "returned"
         /\ result = <<LastResponse.LATESTVERSION[1], LastResponse.PATH[1]>> )

C13_Witness ==
    /\ Len(responses) = 2
    /\ IsUpdateAvailable(LastResponse)
    /\ result = <<"1.23", FwUrl>>
    /\ neg_pc = "returned"

\* The responses C14 names: VERSIONCHECK absent, repeated or not one of
\* "0", "1", "2"; or VERSIONCHECK "0" with LATESTVERSION or PATH missing.
IsMalformedVersionCheck(resp) ==
    /\ resp.status_code = 200
    /\ \/ ~Once(resp, "VERSIONCHECK")
       \/ resp.VERSIONCHECK[1] \notin {"0", "1", "2"}
       \/ /\ resp.VERSIONCHECK = <<"0">>
          /\ (resp.LATESTVERSION = <<>> \/ resp.PATH = <<>>)

\* C14: for each of these responses parse_response raises its ValueError,
\* which get_download_url collects, and returns neither version nor URL.
C14_MalformedRaises ==
    ( /\ responses # <<>>
      /\ IsMalformedVersionCheck(LastResponse) )
    => ( /\ neg_pc # "returned"
         /\ Len(errors) = Len(responses)
         /\ errors[Len(errors)].type = "ValueError"
         /\ errors[Len(errors)].response = LastResponse
         /\ parse_response(LastResponse, RequestedFirmid).value = <<None, None>> )

C14_Witness ==
    /\ Len(responses) = 2
    /\ responses[1].VERSIONCHECK = <<"1", "1">>
    /\ LastResponse.VERSIONCHECK = <<"0">>
    /\ LastResponse.LATESTVERSION # <<>>
    /\ LastResponse.PATH = <<>>
    /\ Len(errors) = 2

FirmidDiffers(resp) == IsUpdateAvailable(resp) /\ resp.FIRMID[1] # RequestedFirmid

\* C15: a response with VERSIONCHECK "0" whose FIRMID is not the requested
\* one is returned like any other: its version and URL are the result, a
\* warning is logged, no error is collected for it and no request follows.
C15_FirmidMismatchOnlyWarns ==
    ( /\ responses # <<>>
      /\ FirmidDiffers(LastResponse) )
    => ( /\ neg_pc = "returned"
         /\ result = <<LastResponse.LATESTVERSION[1], LastResponse.PATH[1]>>
         /\ \E i \in 1..Len(logged) : logged[i] = LogRecord("warning", "firmid differs")
         /\ Len(errors) = Len(responses) - 1
         /\ Len(sent) = Len(responses)
         /\ raised.type # "ExceptionGroup" )

C15_Witness ==
    /\ Len(responses) = 1
    /\ FirmidDiffers(LastResponse)
    /\ Len(sent) = 1
    /\ run_pc = "download_fw"

\* The response that differs from resp only in reporting VERSIONCHECK "1".
AsUpToDate(resp) == [resp EXCEPT !.VERSIONCHECK = <<"1">>]

\* C16 as stated: VERSIONCHECK "2" is returned without an exception, is
\* reported, and what the caller gets differs from what it gets for
\* VERSIONCHECK "1".
C16_UnknownDistinguishable ==
    ( /\ responses # <<>>
      /\ IsUnknown(LastResponse) )
    => ( /\ neg_pc = "returned"
         /\ \E i \in 1..Len(logged) : logged[i] = LogRecord("error", "versioncheck 2")
         /\ result # parse_response(AsUpToDate(LastResponse), RequestedFirmid).value )

\* C16, amended: VERSIONCHECK "2" is returned without an exception and is
\* reported by an error record; what the caller gets is (None, None), the
\* same as for VERSIONCHECK "1", and only the record logged differs.
C16_UnknownReportedOnly ==
    ( /\ responses # <<>>
      /\ IsUnknown(LastResponse) )
    => ( /\ neg_pc = "returned"
         /\ \E i \in 1..Len(logged) : logged[i] = LogRecord("error", "versioncheck 2")
         /\ \A i \in 1..Len(logged) : logged[i] # LogRecord("success", "up to date")
         /\ result = <<None, None>>
         /\ result = parse_response(AsUpToDate(LastResponse), RequestedFirmid).value
         /\ raised = NoException )

C16_Witness ==
    /\ Len(responses) = 2
    /\ IsUnknown(LastResponse)
    /\ run_pc = "loop"
    /\ result = <<None, None>>

\* ------------------------------------------------------------------ the request's claims

\* C17: the request of the quirk attempt is the plain request with the tag
\* SERIALNO renamed SELIALNO and DRIVER set to "EWS"; the plain request has
\* the tag SERIALNO and an empty DRIVER; the request of oh-brother.py has
\* SELIALNO and "EWS".
C17_QuirkRequestShape ==
    /\ Len(sent) >= 1 => (sent[1].SERIALTAG = "SERIALNO" /\ sent[1].DRIVER = "")
    /\ Len(sent) >= 2 =>
          /\ sent[2].SERIALTAG = "SELIALNO"
          /\ sent[2].DRIVER = "EWS"
          /\ sent[2] = [sent[1] EXCEPT !.SERIALTAG = "SELIALNO", !.DRIVER = "EWS"]
    /\ oh_pc # "idle" => (requestInfo.SERIALTAG = "SELIALNO" /\ requestInfo.DRIVER = "EWS")

C17_Witness ==
    /\ Len(sent) = 2
    /\ sent[2].SERIALTAG = "SELIALNO"
    /\ sent[1].FIRMINFO # <<>>

\* What C18 says of a request: FIRMCATEGORY is the id of the part, FIRMINFO
\* lists every part, in order.
WholeListRequest(req, ids, versions, n) ==
    /\ req.FIRMCATEGORY = ids[n]
    /\ req.FIRMINFO = [i \in 1..Len(ids) |-> [ID |-> ids[i], VERSION |-> versions[i]]]

PackageRequestsWholeList ==
    \A i \in 1..Len(sent) :
        WholeListRequest(sent[i],
            [k \in 1..Len(printer_info.fw_versions) |-> printer_info.fw_versions[k].firmid],
            [k \in 1..Len(printer_info.fw_versions) |-> printer_info.fw_versions[k].firmver],
            part_idx)

\* C18 as stated: every request sent for a part, by either program, has
\* FIRMCATEGORY equal to the part's id and one FIRM element per part of the
\* whole list, in list order.
C18_RequestListsAllParts ==
    /\ PackageRequestsWholeList
    /\ oh_entry >= 1 =>
          WholeListRequest(requestInfo,
              [k \in 1..Len(oh_env.firmInfo) |-> oh_env.firmInfo[k].cat],
              [k \in 1..Len(oh_env.firmInfo) |-> oh_env.firmInfo[k].version],
              oh_entry)

\* C18, amended: every request of brother_printer_fwupd has FIRMCATEGORY
\* equal to the part's id and one FIRM element per part of the whole list,
\* in list order; a request of oh-brother.py has one FIRM element, for the
\* entry being updated, and names MAIN as FIRMCATEGORY of a FIRM entry and
\* as ID of an IFAX entry.
C18_PackageRequestListsAllParts ==
    /\ PackageRequestsWholeList
    /\ oh_entry >= 1 =>
          LET entry == oh_env.firmInfo[oh_entry]
          IN /\ requestInfo.FIRMCATEGORY = IF entry.cat = "FIRM" THEN "MAIN" ELSE entry.cat
             /\ requestInfo.FIRMINFO =
                   <<[ID |-> IF entry.cat = "IFAX" THEN "MAIN" ELSE entry.cat,
                      VERSION |-> entry.version]>>

C18_Witness ==
    /\ part_idx = 2
    /\ Len(sent) = 2
    /\ printer_info.fw_versions = <<FWInfo("MAIN", "1.0"), FWInfo("SUB", "2.0")>>
    /\ sent[2].FIRMCATEGORY = "SUB"

\* ------------------------------------------------------------------ the download's claims

\* The server declares a length and delivers exactly that many bytes.
DeliversDeclared(dl) ==
    /\ dl.status_code = 200
    /\ dl.content_length # <<>>
    /\ SumSeq(dl.chunks) = dl.content_length[1]

\* What C19 says of such a download, N being the declared length.
ProgressIsExact(N) ==
    /\ dl_raised = None
    /\ \A i \in 1..Len(dl_progress) :
          /\ dl_progress[i].den = N
          /\ dl_progress[i].num = SumSeq(SubSeq(dl_resp.chunks, 1, i)) * 100
          /\ dl_progress[i].num <= 100 * dl_progress[i].den
          /\ i > 1 => dl_progress[i - 1].num <= dl_progress[i].num
    /\ dl_pc = "returned" =>
          /\ dl_file_size = N
          /\ dl_progress # <<>>
          /\ dl_progress[Len(dl_progress)].num = 100 * dl_progress[Len(dl_progress)].den

\* C19 as stated: a download that declares N bytes and delivers N bytes ends
\* with a file of N bytes and a last progress of 100%; each progress printed
\* is the bytes written so far over N, never less than the one before and
\* never above 100%.
C19_ProgressReaches100 ==
    DeliversDeclared(dl_resp) => ProgressIsExact(dl_resp.content_length[1])

\* C19, amended: the same for N of at least one byte.
C19_ProgressReaches100Nonempty ==
    (DeliversDeclared(dl_resp) /\ dl_resp.content_length[1] >= 1)
        => ProgressIsExact(dl_resp.content_length[1])

C19_Witness ==
    /\ DeliversDeclared(dl_resp)
    /\ dl_pc = "returned"
    /\ Len(dl_resp.chunks) = MaxBytes
    /\ Len(dl_progress) = MaxBytes

\* C20: a download with no Content-Length raises nothing, and when it has
\* returned every chunk received is in the file.
C20_UnknownLengthCompletes ==
    (dl_resp.status_code = 200 /\ dl_resp.content_length = <<>>)
        => ( /\ dl_raised = None
             /\ dl_pc = "returned" => dl_file_size = SumSeq(dl_resp.chunks) )

\* The (printer model, firmware part id, latest version) of a call.
Triple(call) == <<call.printer_model, call.fw_part.firmid, call.latest_version>>

\* C23: two download_fw calls into one directory with different (model,
\* part id, latest version) triples write to different files: every call
\* made with another triple still has its file in the directory.
C23_DistinctTriplesDistinctFiles ==
    \A i, j \in 1..Len(dl_calls) :
        Triple(dl_calls[i]) # Triple(dl_calls[j])
        => /\ OutFile(".", dl_calls[i].printer_model, dl_calls[i].fw_part,
                      dl_calls[i].latest_version)
              # OutFile(".", dl_calls[j].printer_model, dl_calls[j].fw_part,
                        dl_calls[j].latest_version)
           /\ \E f \in dl_dir : f.written_by = dl_calls[i]

\* ------------------------------------------------------------------ the loop's claims

\* An upload byte stream to the device has begun.
IsDeviceWrite(ev) == ev.what \in {"sendfile", "storbinary"}

UploadBegun(ev) == ev.what = "Now uploading firmware to printer"

UploadEnded(ev) == ev.what = "done"

\* C22: uploads are serialized with every other step.  While a part is
\* negotiated, downloaded or about to be uploaded, every upload begun so far
\* is of an earlier part and has ended; no part is uploaded twice.
C22_UploadsSerialized ==
    /\ \A i, j \in 1..Len(uploaded) : i < j => uploaded[i].part < uploaded[j].part
    /\ run_pc \in {"get_download_url", "download_fw", "upload_fw"}
          => \A i \in 1..Len(uploaded) : uploaded[i].part < part_idx
    /\ \A i, j \in 1..Len(oh_events) :
          (i < j /\ UploadBegun(oh_events[i]) /\ UploadBegun(oh_events[j]))
          => oh_events[i].entry < oh_events[j].entry
    /\ oh_pc \in {"lookup", "download", "confirm"}
          => \A i \in 1..Len(oh_events) :
                UploadBegun(oh_events[i])
                => /\ oh_events[i].entry < oh_entry
                   /\ \E j \in (i + 1)..Len(oh_events) :
                         /\ UploadEnded(oh_events[j])
                         /\ oh_events[j].entry = oh_events[i].entry

C22_Witness ==
    /\ oh_pc = "download"
    /\ oh_entry = 2
    /\ \E i \in 1..Len(oh_events) : oh_events[i] = Event(1, "sendfile")
    /\ \E i \in 1..Len(oh_events) : oh_events[i] = Event(1, "done")

\* The entries of oh-brother.py whose upload was given up for a caught
\* connection failure, and those whose upload went through.
OhFailedEntries ==
    {oh_events[i].entry : i \in {k \in 1..Len(oh_events) :
        oh_events[k].what \in {"Firmware update aborted due to error while uploading",
                               "Firmware update aborted due to connection refused"}}}

OhUploadedEntries ==
    {oh_events[i].entry : i \in {k \in 1..Len(oh_events) : IsDeviceWrite(oh_events[k])}}
        \ OhFailedEntries

\* The parts of run whose upload failed with the caught OSError, and the
\* parts whose firmware was downloaded and met no failure.
RunFailedParts == {uploaded[i].part : i \in {k \in 1..Len(uploaded) : ~uploaded[k].connected}}

RunGoodParts ==
    {downloaded[j].part : j \in {k \in 1..Len(downloaded) : downloaded[k].raised = None}}
        \ RunFailedParts

\* C24: a run in which one part failed while another succeeded never ends
\* reporting plain success ("Done." of run, 'Success' of oh-brother.py).
C24_PartialFailureNotSuccess ==
    /\ (RunFailedParts # {} /\ RunGoodParts # {}) => run_pc # "done"
    /\ (OhFailedEntries # {} /\ OhUploadedEntries # {}) => oh_pc # "success"

\* C25: a download answered with a 4xx or 5xx status raises HTTPError
\* before the file is opened; nothing is written, run ends with that
\* exception and no upload_fw call is made for the part.
C25_HttpErrorBeforeOpen ==
    \A j \in 1..Len(downloaded) :
        downloaded[j].status_code >= 400
        => /\ downloaded[j].raised = "HTTPError"
           /\ ~downloaded[j].opened
           /\ downloaded[j].size_written = 0
           /\ run_pc = "aborted"
           /\ raised = Exception("HTTPError")
           /\ \A i \in 1..Len(uploaded) : uploaded[i].part # downloaded[j].part

C25_Witness ==
    /\ Len(downloaded) = 2
    /\ downloaded[2].status_code = 404
    /\ downloaded[2].part = 2
    /\ run_pc = "aborted"

\* C26: upload_fw connects to the given port when there is one, else to the
\* port the lookup of "pdl-datastream" gives, and to 9100 exactly when no
\* port is given and the lookup fails.
C26_PortResolution ==
    \A i \in 1..Len(uploaded) :
        LET u == uploaded[i]
        IN /\ u.given_port # <<>> => u.port = u.given_port[1]
           /\ (u.given_port = <<>> /\ u.lookup # <<>>) => u.port = u.lookup[1]
           /\ u.port = 9100 <=> (u.given_port = <<>> /\ u.lookup = <<>>)

C26_Witness ==
    /\ Len(uploaded) = 2
    /\ uploaded[1].given_port = <<>> /\ uploaded[1].lookup = <<ServicePort>>
    /\ uploaded[1].port = ServicePort
    /\ uploaded[2].lookup = <<>> /\ uploaded[2].port = 9100

\* C30: no download and no upload is started for a part whose negotiation
\* gave no URL (VERSIONCHECK 1 or 2), and none is uploaded when download-only
\* (args.download_only, args.test) is set.
C30_NoUrlNoTransfer ==
    /\ run_pc \in {"download_fw", "upload_fw"}
          => (~NoUrl(result[2]) /\ ~IsUpToDate(LastResponse) /\ ~IsUnknown(LastResponse))
    /\ \A j \in 1..Len(downloaded) : ~NoUrl(downloaded[j].url)
    /\ \A i \in 1..Len(uploaded) :
          \E j \in 1..Len(downloaded) : downloaded[j].part = uploaded[i].part
    /\ args.download_only => uploaded = <<>>
    /\ oh_pc \in {"download", "confirm", "upload"}
          => (~IsUpToDate(oh_response) /\ ~IsUnknown(oh_response))
    /\ oh_env.args.test
          => \A i \in 1..Len(oh_events) :
                ~UploadBegun(oh_events[i]) /\ ~IsDeviceWrite(oh_events[i])

\* ------------------------------------------------------------------ the request's frame

\* The request lists the parts of the identity, each once and in order, and
\* has the SERIALNO element and an empty DRIVER.
IsFreshPlainRequest(req) ==
    /\ Len(req.FIRMINFO) = Len(printer_info.fw_versions)
    /\ \A i \in 1..Len(req.FIRMINFO) :
          /\ req.FIRMINFO[i].ID = printer_info.fw_versions[i].firmid
          /\ req.FIRMINFO[i].VERSION = printer_info.fw_versions[i].firmver
    /\ req.SERIALTAG = "SERIALNO"
    /\ req.SERIAL = ""
    /\ req.DRIVER = ""

\* C31: get_download_url calls share no mutable state.  The request
\* template reads the same after any number of calls, with or without the
\* quirk retry, and the plain request of every call lists each firmware
\* part once, with SERIALNO and an empty DRIVER.
C31_TemplateUntouched ==
    /\ API_REQUEST_DATA_TEMPLATE = RequestTemplate
    /\ (run_pc = "get_download_url" /\ attempt = 0) => IsFreshPlainRequest(api_request_data)
    /\ Len(sent) >= 1 => IsFreshPlainRequest(sent[1])

C31_Witness ==
    /\ part_idx = 2
    /\ last_callback.name = "apply_mfc_l3750cdw_hack"
    /\ run_pc = "get_download_url"
    /\ attempt = 0
    /\ Len(api_request_data.FIRMINFO) = 2

FrameFields ==
    {"FIRMCATEGORY", "OS", "INSPECTMODE", "NAME", "SPEC", "FIRMINFO",
     "DRIVERCNT", "LOGNO", "ERRBIT", "NEEDRESPONSE"}

\* C32: the quirked request differs from the plain request of the same call
\* in the name of the serial element and in DRIVER only, and the request
\* handed to apply_mfc_l3750cdw_hack reads afterwards as it was sent.
C32_QuirkChangesSerialTagAndDriverOnly ==
    Len(sent) = 2
    => /\ \A f \in FrameFields : sent[2][f] = sent[1][f]
       /\ sent[1].SERIALTAG = "SERIALNO" /\ sent[2].SERIALTAG = "SELIALNO"
       /\ sent[2].SERIAL = sent[1].SERIAL
       /\ sent[1].DRIVER = "" /\ sent[2].DRIVER = "EWS"
       /\ last_callback.name = "apply_mfc_l3750cdw_hack"
       /\ last_callback.arg = sent[1]

C32_Witness ==
    /\ Len(sent) = 2
    /\ Len(sent[1].FIRMINFO) = 2
    /\ sent[2].FIRMCATEGORY = "SUB"
    /\ last_callback.arg.SERIALTAG = "SERIALNO"

\* C33: an HTTP error status of the update endpoint leaves get_download_url
\* at once as HTTPError.  The response is the last one of the call, no
\* request follows it, it adds nothing to errors, and run ends with the
\* HTTPError, not with the group of attempt errors.
C33_HttpErrorNotRetried ==
    \A k \in 1..Len(responses) :
        responses[k].status_code >= 400
        => /\ k = Len(responses)
           /\ Len(sent) = k
           /\ Len(errors) = k - 1
           /\ neg_pc = "raised_http"
           /\ run_pc = "aborted"
           /\ raised = Exception("HTTPError")

C33_Witness ==
    /\ Len(responses) = 1
    /\ responses[1].status_code = 500
    /\ Len(sent) = 1
    /\ errors = <<>>
    /\ neg_pc = "raised_http"

\* ------------------------------------------------------------------ the selection's claims

LastInput == cli_inputs[Len(cli_inputs)]

CliEnded == cli_pc \in {"returned", "raised"}

\* C34: an empty line cancels the selection.  When the last line entered is
\* empty run_cli returns None and does not raise, whatever was entered
\* before; it returns a printer only when the last line was a number in
\* range when it was entered.
C34_EmptyLineCancels ==
    /\ (CliEnded /\ cli_inputs # <<>> /\ strip(LastInput.line) = <<>>)
          => (cli_pc = "returned" /\ cli_result.returned = <<>>)
    /\ (cli_pc = "returned" /\ cli_result.returned # <<>>)
          => (cli_inputs # <<>> /\ LastInput.in_range)

\* C35: the discovery callbacks may run at any point of run_cli.  After a
\* choice that was in range when it was validated, run_cli does not raise
\* and returns None or a printer that is in the list.
C35_SelectionSurvivesCallbacks ==
    (CliEnded /\ cli_inputs # <<>> /\ LastInput.in_range)
    => /\ cli_pc = "returned"
       /\ \/ cli_result.returned = <<>>
          \/ \E i \in 1..Len(printers) : printers[i] = cli_result.returned[1]

\* ------------------------------------------------------------------ the text form's claims

HasSeparator(value) == \E i \in DOMAIN value : value[i] = "@"

\* C36: a firmware part whose id holds no "@" reads back from its text as
\* the same part: from_str(str(part)) = part.  A text without "@" raises
\* the argument error and gives no part.
C36_TextRoundTrip ==
    arg_pc = "parsed"
    => /\ (fw_arg # <<>> /\ ~HasSeparator(fw_arg[1].firmid))
             => (fw_parsed.raised = None /\ fw_parsed.part = fw_arg)
       /\ ~HasSeparator(fw_text[1])
             => (fw_parsed.raised = "ArgumentTypeError" /\ fw_parsed.part = <<>>)

C36_Witness ==
    /\ arg_pc = "parsed"
    /\ fw_arg = <<FWInfo(<<"M">>, <<"@", "1">>)>>
    /\ fw_text = <<<<"M", "@", "@", "1">>>>
    /\ fw_parsed.part = fw_arg

====
